---------------------------- MODULE Spec2Model ----------------------------
(***************************************************************************)
(* A model of the progression and scheduling core of PFA-Prep:             *)
(*   src/src/time_utils.py          time arithmetic                        *)
(*   src/src/fitness_calculator.py  FitnessProgressionCalculator           *)
(*   src/src/supplement_scheduler.py SupplementScheduler                   *)
(*   src/src/meal_generator.py      MealGenerator                          *)
(*                                                                         *)
(* Text is a sequence of one-character strings, so that parsing and        *)
(* formatting are computed character by character.  Python floats that     *)
(* hold k/effective_weeks are exact rationals here: a numerator over the   *)
(* denominator effective_weeks.                                            *)
(***************************************************************************)
EXTENDS Integers, Sequences, FiniteSets, TLC

VARIABLES
    \* FitnessProgressionCalculator instance
    fitness_config,     \* self.fitness_config
    timeline_weeks,     \* self.timeline_weeks
    buffer_weeks,       \* self.buffer_weeks (a dict: a function on its keys)
    warned_run_goal,    \* self._warned_run_goal
    printed,            \* number of goal warnings written to stdout
    fit_call,           \* the last calculator call and what it returned
    \* time_utils
    tu_in,              \* the arguments of the time_utils call under study
    tu_call,            \* the last time_utils call and what it returned
    \* SupplementScheduler instance
    supp_config,        \* self.config: daily_stack, pre_workout, post_workout
    supp_call,          \* the last scheduler call and what it returned
    \* MealGenerator instance and the generate_meal_options call in progress
    mg_config,          \* self.*: database, rules, options_per_meal, recipe settings
    mg_pc,              \* where the call is: idle, loop, recipes, done
    mg_call,            \* arguments and locals of the call
    mg_loop,            \* locals of the running _generate_component_meal_options
    mg_result,          \* what the last finished call returned
    \* WorkoutProgressionEngine instance (its calculator is the one above)
    training_config,    \* self.training_config: schedule, workout_times
    progression_config, \* self.progression_config: adaptation_periods
    eng_call,           \* the last engine call and what it returned
    \* RecipeFetcher instance, the clock and the call in progress
    rf_config,          \* self.api_configs: enabled and credentials of each API
    api_failure_counts, \* self.api_failure_counts (a dict: a function on its keys)
    rf_cache,           \* self.cache (a dict: a function on its keys)
    rf_now,             \* time.time(), in seconds
    rf_pc,              \* where fetch_recipes_for_ingredients is: idle, apis, done
    rf_fetch,           \* locals of the running fetch_recipes_for_ingredients
    rf_call,            \* the last finished fetcher call and what it returned
    rf_streak,          \* per API, its latest fetches in a row that a request error emptied
    fr_args,            \* the arguments of the find_recipes_for_meal_components calls
    fr_pc,              \* where find_recipes_for_meal_components is: idle, attempts, fetching, done
    fr_find,            \* locals of find_recipes_for_meal_components and what it returned
    \* EnhancedMealGenerator instance (its settings are mg_config, its fetcher the one above)
    em_pc,              \* where _fetch_recipes_for_meal is: idle, finding, done
    em_call,            \* arguments and locals of _fetch_recipes_for_meal and what it returned
    eg_pc,              \* where generate_mixed_meal_options is: idle, super, components, done
    eg_frames,          \* the call stack under generate_mixed_meal_options
    eg_call             \* arguments of generate_mixed_meal_options and what it returned

fitVars == <<fitness_config, timeline_weeks, buffer_weeks, warned_run_goal,
             printed, fit_call>>
tuVars == <<tu_in, tu_call>>
suppVars == <<supp_config, supp_call>>
mealVars == <<mg_config, mg_pc, mg_call, mg_loop, mg_result>>
engVars == <<training_config, progression_config, eng_call>>
fetchVars == <<rf_config, api_failure_counts, rf_cache, rf_now, rf_pc, rf_fetch,
               rf_call, rf_streak>>
findVars == <<fr_args, fr_pc, fr_find>>
enhVars == <<em_pc, em_call, eg_pc, eg_frames, eg_call>>
vars == <<fitness_config, timeline_weeks, buffer_weeks, warned_run_goal,
          printed, fit_call, tu_in, tu_call, supp_config, supp_call,
          mg_config, mg_pc, mg_call, mg_loop, mg_result,
          training_config, progression_config, eng_call,
          rf_config, api_failure_counts, rf_cache, rf_now, rf_pc, rf_fetch,
          rf_call, rf_streak, fr_args, fr_pc, fr_find,
          em_pc, em_call, eg_pc, eg_frames, eg_call>>

NoCall == [op |-> "none"]

(***************************************************************************)
(* Bounds of the model.                                                    *)
(***************************************************************************)
MaxWeeks == 4        \* timelines of 0..MaxWeeks weeks (and the 16 of the scenarios)
MaxBuffer == 4       \* buffer weeks 0..MaxBuffer
MaxFrequency == 5    \* adaptation frequencies 1..MaxFrequency
MaxAdaptWeeks == 11  \* timelines of the adaptation-week specification
MaxHour == 4         \* hours 0..MaxHour (and 23) of the window checks
MaxMinuteDigits == 2 \* digits of the minutes field of an "M:SS" text
MaxStackEntries == 2 \* entries of a daily_stack

(***************************************************************************)
(* Python built-ins                                                        *)
(***************************************************************************)
Min(a, b) == IF a <= b THEN a ELSE b
Max(a, b) == IF a >= b THEN a ELSE b
Abs(a) == IF a < 0 THEN -a ELSE a

\* dict.get(key, default)
Get(d, k, default) == IF k \in DOMAIN d THEN d[k] ELSE default

DigitChars == <<"0", "1", "2", "3", "4", "5", "6", "7", "8", "9">>
Digit == {DigitChars[i] : i \in 1..10}
DigitVal(c) == (CHOOSE i \in 1..10 : DigitChars[i] = c) - 1

\* str(n) for an integer n
RECURSIVE NatToStr(_)
NatToStr(n) == IF n < 10 THEN <<DigitChars[n + 1]>>
               ELSE NatToStr(n \div 10) \o <<DigitChars[(n % 10) + 1]>>
IntToStr(n) == IF n < 0 THEN <<"-">> \o NatToStr(-n) ELSE NatToStr(n)

\* f"{n:02d}" for n >= 0
Format02d(n) == IF n < 10 THEN <<"0">> \o NatToStr(n) ELSE NatToStr(n)

\* int(s): defined on non-empty digit texts (leading zeros are accepted)
IsIntText(s) == Len(s) > 0 /\ \A i \in 1..Len(s) : s[i] \in Digit
RECURSIVE DigitsToNat(_)
DigitsToNat(s) == IF Len(s) = 0 THEN 0
                  ELSE 10 * DigitsToNat(SubSeq(s, 1, Len(s) - 1)) + DigitVal(s[Len(s)])

\* s.split(sep) for a one-character separator
RECURSIVE Split(_, _)
Split(s, sep) ==
    IF \A i \in 1..Len(s) : s[i] # sep THEN <<s>>
    ELSE LET i == CHOOSE j \in 1..Len(s) :
                     s[j] = sep /\ \A k \in 1..(j - 1) : s[k] # sep
         IN <<SubSeq(s, 1, i - 1)>> \o Split(SubSeq(s, i + 1, Len(s)), sep)
\* a rounding that truncates instead: int(num / den)
Round_truncating(num, den) == num \div den

\* int(round(num / den)) for den > 0: Python 3 rounds halves to even
Round(num, den) ==
    LET q == num \div den
        r == num % den
    IN IF 2 * r < den THEN q
       ELSE IF 2 * r > den THEN q + 1
       ELSE IF q % 2 = 0 THEN q ELSE q + 1

ValueError == [error |-> "ValueError"]

\* how a call ends: an exception, or a returned value
Raise(msg) == [status |-> "error", error |-> "ValueError", msg |-> msg]
Return(v) == [status |-> "ok", value |-> v]
\* an exception of another class
Throw(error, msg) == [status |-> "error", error |-> error, msg |-> msg]

(***************************************************************************)
(* time_utils.py                                                           *)
(***************************************************************************)
\* a datetime.time, to the minute
Time(h, m) == [hour |-> h, minute |-> m]

time_to_minutes(t) == t.hour * 60 + t.minute

minutes_to_time(minutes) ==
    LET m == minutes % (24 * 60) IN Time(m \div 60, m % 60)

\* the texts on which parse_time_to_seconds raises ValueError
ParseRaises(time_str) ==
    IF \E i \in 1..Len(time_str) : time_str[i] = ":"
    THEN LET parts == Split(time_str, ":")
         IN Len(parts) # 2 \/ ~IsIntText(parts[1]) \/ ~IsIntText(parts[2])
    ELSE ~IsIntText(time_str)

parse_time_to_seconds(time_str) ==
    IF ParseRaises(time_str) THEN ValueError
    ELSE IF \E i \in 1..Len(time_str) : time_str[i] = ":"
    THEN LET parts == Split(time_str, ":")
         IN DigitsToNat(parts[1]) * 60 + DigitsToNat(parts[2])
    ELSE DigitsToNat(time_str)
\* a formatting that does not pad the seconds: f"{minutes}:{seconds}"
seconds_to_time_string_unpadded(total_seconds) ==
    IntToStr(total_seconds \div 60) \o <<":">> \o IntToStr(total_seconds % 60)

seconds_to_time_string(total_seconds) ==
    LET minutes == total_seconds \div 60
        seconds == total_seconds % 60
    IN IntToStr(minutes) \o <<":">> \o Format02d(seconds)

calculate_eating_duration(start_time, end_time) ==
    LET start_minutes == time_to_minutes(start_time)
        end0 == time_to_minutes(end_time)
        end_minutes == IF end0 <= start_minutes THEN end0 + 24 * 60 ELSE end0
    IN end_minutes - start_minutes

add_minutes_to_time(t, minutes_offset) ==
    minutes_to_time(time_to_minutes(t) + minutes_offset)
\* a window check that moves the end past midnight but never the checked time
is_time_in_window_end_only(check_time, start_time, end_time) ==
    LET check_minutes == time_to_minutes(check_time)
        start_minutes == time_to_minutes(start_time)
        end0 == time_to_minutes(end_time)
        end_minutes == IF end0 <= start_minutes THEN end0 + 24 * 60 ELSE end0
    IN start_minutes <= check_minutes /\ check_minutes <= end_minutes

is_time_in_window(check_time, start_time, end_time) ==
    LET check0 == time_to_minutes(check_time)
        start_minutes == time_to_minutes(start_time)
        end0 == time_to_minutes(end_time)
        crosses == end0 <= start_minutes
        end_minutes == IF crosses THEN end0 + 24 * 60 ELSE end0
        check_minutes == IF crosses /\ check0 < start_minutes
                         THEN check0 + 24 * 60 ELSE check0
    IN start_minutes <= check_minutes /\ check_minutes <= end_minutes

(***************************************************************************)
(* fitness_calculator.py                                                   *)
(***************************************************************************)
time_string_to_seconds(time_str) == parse_time_to_seconds(time_str)

\* the run-time goal does not meet the standard: the standard becomes the target
RunGoalOverridden(cfg) ==
    time_string_to_seconds(cfg.goals.run_time)
        > time_string_to_seconds(cfg.pfa_standards.run_time)

RunTargetSeconds(cfg) ==
    IF RunGoalOverridden(cfg)
    THEN time_string_to_seconds(cfg.pfa_standards.run_time)
    ELSE time_string_to_seconds(cfg.goals.run_time)
\* a loop body that keeps improving through the buffer weeks
RunWeekStep_no_plateau(week, effective_weeks, current, weekly_improvement) ==
    current - weekly_improvement

\* one pass of the loop body of calculate_run_progression; `current` and
\* `weekly_improvement` are numerators over effective_weeks
RunWeekStep(week, effective_weeks, current, weekly_improvement) ==
    IF week < effective_weeks THEN current - weekly_improvement ELSE current

RECURSIVE RunWeeks(_, _, _, _, _)
RunWeeks(week, weeks, effective_weeks, current, weekly_improvement) ==
    IF week >= weeks THEN <<>>
    ELSE LET c == RunWeekStep(week, effective_weeks, current, weekly_improvement)
         IN <<seconds_to_time_string(Round(c, effective_weeks))>>
            \o RunWeeks(week + 1, weeks, effective_weeks, c, weekly_improvement)

calculate_run_progression(cfg, weeks, buffers) ==
    LET baseline_seconds == time_string_to_seconds(cfg.baseline.run_time)
        goal_seconds == RunTargetSeconds(cfg)
        buffer == Get(buffers, "run", 0)
        effective_weeks == weeks - buffer
        total_improvement == baseline_seconds - goal_seconds
    IN IF effective_weeks <= 0
       THEN Raise("Buffer weeks exceed total timeline weeks")
       ELSE Return(RunWeeks(0, weeks, effective_weeks,
                            baseline_seconds * effective_weeks, total_improvement))
\* a loop body that stops improving one week early
StrengthWeekStep_one_short(week, effective_weeks, current, weekly_improvement) ==
    IF week < effective_weeks - 1 THEN current + weekly_improvement ELSE current

\* one pass of the loop body of calculate_strength_progression
StrengthWeekStep(week, effective_weeks, current, weekly_improvement) ==
    IF week < effective_weeks THEN current + weekly_improvement ELSE current

RECURSIVE StrengthWeeks(_, _, _, _, _)
StrengthWeeks(week, weeks, effective_weeks, current, weekly_improvement) ==
    IF week >= weeks THEN <<>>
    ELSE LET c == StrengthWeekStep(week, effective_weeks, current, weekly_improvement)
         IN <<Round(c, effective_weeks)>>
            \o StrengthWeeks(week + 1, weeks, effective_weeks, c, weekly_improvement)
\* guards that forget the PFA standard
StrengthGuard_no_standard(goal, standard, effective_weeks) ==
    IF effective_weeks <= 0 THEN "Buffer weeks exceed total timeline weeks" ELSE "pass"

\* the two guards of calculate_strength_progression, in the code's order
StrengthGuard(goal, standard, effective_weeks) ==
    IF goal < standard THEN "Goal does not meet PFA standard"
    ELSE IF effective_weeks <= 0 THEN "Buffer weeks exceed total timeline weeks"
    ELSE "pass"

calculate_strength_progression(cfg, weeks, buffers, exercise) ==
    LET baseline == cfg.baseline[exercise]
        goal == cfg.goals[exercise]
        standard == cfg.pfa_standards[exercise]
        buffer == Get(buffers, exercise, 0)
        effective_weeks == weeks - buffer
        total_improvement == goal - baseline
        guard == StrengthGuard(goal, standard, effective_weeks)
    IN IF guard # "pass" THEN Raise(guard)
       ELSE Return(StrengthWeeks(0, weeks, effective_weeks,
                                 baseline * effective_weeks, total_improvement))

\* get_weekly_targets: the first progression that raises ends the call
get_weekly_targets(cfg, weeks, buffers, week) ==
    LET run_progression == calculate_run_progression(cfg, weeks, buffers)
        pushup_progression == calculate_strength_progression(cfg, weeks, buffers, "pushups")
        situp_progression == calculate_strength_progression(cfg, weeks, buffers, "situps")
    IN IF run_progression.status = "error" THEN run_progression
       ELSE IF pushup_progression.status = "error" THEN pushup_progression
       ELSE IF situp_progression.status = "error" THEN situp_progression
       ELSE LET w == IF week >= Len(run_progression.value)
                     THEN Len(run_progression.value) - 1 ELSE week
            IN Return([run_time |-> run_progression.value[w + 1],
                       pushups |-> pushup_progression.value[w + 1],
                       situps |-> situp_progression.value[w + 1]])

validate_goals(cfg) ==
    [run_meets_standard |->
         time_string_to_seconds(cfg.goals.run_time)
             <= time_string_to_seconds(cfg.pfa_standards.run_time),
     pushups_meets_standard |-> cfg.goals.pushups >= cfg.pfa_standards.pushups,
     situps_meets_standard |-> cfg.goals.situps >= cfg.pfa_standards.situps]

\* list(range(start, stop, step)) for step >= 1
RECURSIVE Range(_, _, _)
Range(start, stop, step) ==
    IF start >= stop THEN <<>> ELSE <<start>> \o Range(start + step, stop, step)
\* deload weeks counted from week f instead of week f - 1
calculate_adaptation_weeks_one_late(weeks, adaptation_frequency) ==
    Range(adaptation_frequency, weeks, adaptation_frequency)

calculate_adaptation_weeks(weeks, adaptation_frequency) ==
    Range(adaptation_frequency - 1, weeks, adaptation_frequency)

\* a float given as a fraction; 1.0 is Float(1, 1)
Float(n, d) == [num |-> n, den |-> d]

get_weekly_volume_multiplier(weeks, week, adaptation_frequency, reduction_factor) ==
    LET adaptation_weeks == calculate_adaptation_weeks(weeks, adaptation_frequency)
    IN IF \E i \in 1..Len(adaptation_weeks) : adaptation_weeks[i] = week
       THEN reduction_factor
       ELSE Float(1, 1)

generate_progression_report(cfg, weeks, buffers) ==
    LET run == calculate_run_progression(cfg, weeks, buffers)
        pushups == calculate_strength_progression(cfg, weeks, buffers, "pushups")
        situps == calculate_strength_progression(cfg, weeks, buffers, "situps")
    IN IF run.status = "error" THEN run
       ELSE IF pushups.status = "error" THEN pushups
       ELSE IF situps.status = "error" THEN situps
       ELSE Return([validation |-> validate_goals(cfg),
                    timeline_weeks |-> weeks,
                    buffer_weeks |-> buffers,
                    progressions |-> [run_time |-> run.value,
                                      pushups |-> pushups.value,
                                      situps |-> situps.value]])

(***************************************************************************)
(* The calculator's inputs.                                                *)
(***************************************************************************)
T1500 == <<"1", "5", ":", "0", "0">>
T1245 == <<"1", "2", ":", "4", "5">>
T1336 == <<"1", "3", ":", "3", "6">>
T0010 == <<"0", ":", "1", "0">>
T0003 == <<"0", ":", "0", "3">>
T0005 == <<"0", ":", "0", "5">>

FitnessConfigs ==
    {[baseline |-> [run_time |-> rb, pushups |-> pb, situps |-> 30],
      goals |-> [run_time |-> rg, pushups |-> pg, situps |-> 45],
      pfa_standards |-> [run_time |-> rs, pushups |-> 33, situps |-> 42]] :
        rb \in {T1500, T0010}, rg \in {T1245, T0003}, rs \in {T1336, T0005},
        pb \in {20, 3}, pg \in {50, 10}}

TimelineWeeks == (0..MaxWeeks) \cup {16}

\* buffer_weeks as the loader hands it over: the situps key may be missing
BufferWeeks ==
    {[k \in {"run", "pushups", "situps"} |->
          IF k = "run" THEN r ELSE IF k = "pushups" THEN p ELSE MaxBuffer] :
        r \in 0..MaxBuffer, p \in {0, 2}}
    \cup {[k \in {"run", "pushups"} |-> IF k = "run" THEN r ELSE p] :
              r \in 0..MaxBuffer, p \in {0, 2}}

Exercises == {"pushups", "situps"}

\* the side effect of calculate_run_progression on the instance and on stdout
RunWarns == RunGoalOverridden(fitness_config) /\ ~warned_run_goal

\* a warning on every call whose goal is overridden
WarnEffect_every_call ==
    /\ warned_run_goal' = (warned_run_goal \/ RunGoalOverridden(fitness_config))
    /\ printed' = IF RunGoalOverridden(fitness_config) THEN printed + 1 ELSE printed

WarnEffect ==
    /\ warned_run_goal' = (warned_run_goal \/ RunGoalOverridden(fitness_config))
    /\ printed' = IF RunWarns THEN printed + 1 ELSE printed

(***************************************************************************)
(* The calculator's operations.                                            *)
(***************************************************************************)
\* the configuration of the scenarios: 15:00 -> 12:45 in 16 weeks, 4 and 2 buffer weeks
ScenarioConfig ==
    [baseline |-> [run_time |-> T1500, pushups |-> 20, situps |-> 30],
     goals |-> [run_time |-> T1245, pushups |-> 50, situps |-> 45],
     pfa_standards |-> [run_time |-> T1336, pushups |-> 33, situps |-> 42]]

\* the other components, not in use
FitIdle ==
    /\ fitness_config = ScenarioConfig
    /\ timeline_weeks = 16
    /\ buffer_weeks = [k \in {"run", "pushups"} |-> IF k = "run" THEN 4 ELSE 2]
    /\ warned_run_goal = FALSE
    /\ printed = 0
    /\ fit_call = NoCall

SuppIdle ==
    /\ supp_config = [daily_stack |-> <<>>,
                      pre_workout |-> [enabled |-> FALSE, timing |-> 0, items |-> <<>>],
                      post_workout |-> [enabled |-> FALSE, timing |-> 0, items |-> <<>>]]
    /\ supp_call = NoCall

TuIdle == tu_in = NoCall /\ tu_call = NoCall

MealIdle ==
    /\ mg_config = [meal_database |-> <<>>, combination_rules |-> <<>>,
                    options_per_meal |-> 3, recipe_fetcher |-> FALSE,
                    enable_recipes |-> TRUE, recipe_ratio |-> Float(3, 10),
                    max_recipes_per_meal |-> 2, tag_filters |-> <<>>]
    /\ mg_pc = "idle"
    /\ mg_call = NoCall
    /\ mg_loop = NoCall
    /\ mg_result = NoCall

ApiNames == <<"themealdb", "edamam", "spoonacular">>
EmptyDict == [k \in {} |-> 0]

FindIdle ==
    /\ fr_args = NoCall
    /\ fr_pc = "idle"
    /\ fr_find = NoCall

EnhIdle ==
    /\ em_pc = "idle"
    /\ em_call = NoCall
    /\ eg_pc = "idle"
    /\ eg_frames = <<>>
    /\ eg_call = NoCall

FetchIdle ==
    /\ rf_config = [a \in {ApiNames[i] : i \in 1..3} |->
                        [enabled |-> FALSE, credentials |-> FALSE]]
    /\ api_failure_counts = EmptyDict
    /\ rf_cache = EmptyDict
    /\ rf_now = 0
    /\ rf_pc = "idle"
    /\ rf_fetch = NoCall
    /\ rf_call = NoCall
    /\ rf_streak = [a \in {ApiNames[i] : i \in 1..3} |-> 0]

EngIdle ==
    /\ training_config = [schedule |-> [workout_days |-> <<>>, strength_days |-> <<>>,
                                        rest_days |-> <<>>]]
    /\ progression_config = [adaptation_periods |-> [frequency |-> 4,
                                                     reduction |-> Float(7, 10)]]
    /\ eng_call = NoCall

FitInit ==
    /\ fitness_config \in FitnessConfigs
    /\ timeline_weeks \in TimelineWeeks
    /\ buffer_weeks \in BufferWeeks
    /\ warned_run_goal = FALSE
    /\ printed = 0
    /\ fit_call = NoCall
    /\ TuIdle
    /\ MealIdle
    /\ EngIdle
    /\ FetchIdle
    /\ FindIdle
    /\ EnhIdle
    /\ SuppIdle

CalculateRunProgression ==
    /\ WarnEffect
    /\ fit_call' = [op |-> "calculate_run_progression",
                    result |-> calculate_run_progression(
                                   fitness_config, timeline_weeks, buffer_weeks)]
    /\ UNCHANGED <<fitness_config, timeline_weeks, buffer_weeks, tuVars, suppVars, mealVars, engVars, fetchVars,
                   findVars, enhVars>>

CalculateStrengthProgression ==
    \E exercise \in Exercises :
        /\ fit_call' = [op |-> "calculate_strength_progression",
                        exercise |-> exercise,
                        result |-> calculate_strength_progression(
                                       fitness_config, timeline_weeks,
                                       buffer_weeks, exercise)]
        /\ UNCHANGED <<fitness_config, timeline_weeks, buffer_weeks,
                       warned_run_goal, printed, tuVars, suppVars, mealVars, engVars, fetchVars,
                   findVars, enhVars>>

GetWeeklyTargets ==
    \E week \in TimelineWeeks :
        /\ WarnEffect
        /\ fit_call' = [op |-> "get_weekly_targets", week |-> week,
                        result |-> get_weekly_targets(
                                       fitness_config, timeline_weeks,
                                       buffer_weeks, week)]
        /\ UNCHANGED <<fitness_config, timeline_weeks, buffer_weeks, tuVars, suppVars, mealVars, engVars, fetchVars,
                   findVars, enhVars>>

ValidateGoals ==
    /\ fit_call' = [op |-> "validate_goals",
                    result |-> Return(validate_goals(fitness_config))]
    /\ UNCHANGED <<fitness_config, timeline_weeks, buffer_weeks,
                   warned_run_goal, printed, tuVars, suppVars, mealVars, engVars, fetchVars,
                   findVars, enhVars>>

GenerateProgressionReport ==
    /\ WarnEffect
    /\ fit_call' = [op |-> "generate_progression_report",
                    result |-> generate_progression_report(
                                   fitness_config, timeline_weeks, buffer_weeks)]
    /\ UNCHANGED <<fitness_config, timeline_weeks, buffer_weeks, tuVars, suppVars, mealVars, engVars, fetchVars,
                   findVars, enhVars>>

FitNext ==
    \/ CalculateRunProgression
    \/ CalculateStrengthProgression
    \/ GetWeeklyTargets
    \/ ValidateGoals
    \/ GenerateProgressionReport

SpecFit == FitInit /\ [][FitNext]_vars

(***************************************************************************)
(* Adaptation (deload) weeks: they depend on timeline_weeks alone.         *)
(***************************************************************************)
ReductionFactors == {Float(7, 10), Float(1, 2), Float(1, 1)}

AdaptInit ==
    /\ fitness_config = ScenarioConfig
    /\ timeline_weeks \in 0..MaxAdaptWeeks
    /\ buffer_weeks = [k \in {"run"} |-> 0]
    /\ warned_run_goal = FALSE
    /\ printed = 0
    /\ fit_call = NoCall
    /\ TuIdle
    /\ MealIdle
    /\ EngIdle
    /\ FetchIdle
    /\ FindIdle
    /\ EnhIdle
    /\ SuppIdle

CalculateAdaptationWeeks ==
    \E f \in 1..MaxFrequency :
        /\ fit_call' = [op |-> "calculate_adaptation_weeks",
                        adaptation_frequency |-> f,
                        result |-> Return(calculate_adaptation_weeks(timeline_weeks, f))]
        /\ UNCHANGED <<fitness_config, timeline_weeks, buffer_weeks,
                       warned_run_goal, printed, tuVars, suppVars, mealVars, engVars, fetchVars,
                   findVars, enhVars>>

GetWeeklyVolumeMultiplier ==
    \E week \in 0..(MaxAdaptWeeks + 1), f \in 1..MaxFrequency, r \in ReductionFactors :
        /\ fit_call' = [op |-> "get_weekly_volume_multiplier",
                        week |-> week,
                        adaptation_frequency |-> f,
                        reduction_factor |-> r,
                        result |-> Return(get_weekly_volume_multiplier(
                                              timeline_weeks, week, f, r))]
        /\ UNCHANGED <<fitness_config, timeline_weeks, buffer_weeks,
                       warned_run_goal, printed, tuVars, suppVars, mealVars, engVars, fetchVars,
                   findVars, enhVars>>

AdaptNext ==
    \/ CalculateAdaptationWeeks
    \/ GetWeeklyVolumeMultiplier

SpecAdapt == AdaptInit /\ [][AdaptNext]_vars

(***************************************************************************)
(* time_utils calls.                                                       *)
(***************************************************************************)
WindowTimes ==
    {Time(h, m) : h \in (0..MaxHour) \cup {23}, m \in {0, 30, 59}}

\* texts "<minutes>:<seconds>", well formed or not: one to MaxMinuteDigits
\* minute digits (leading zeros included), one or two second digits
DigitTexts(alphabet, n) ==
    UNION {[1..k -> alphabet] : k \in 1..n}

TimeTexts ==
    {m \o <<":">> \o sec :
        m \in DigitTexts({"0", "1", "2", "9"}, MaxMinuteDigits),
        sec \in DigitTexts(Digit, 2)}

\* the arguments of the call under study
TimeInputs ==
    {[kind |-> "window", check_time |-> c, start_time |-> st, end_time |-> e] :
        c \in WindowTimes, st \in WindowTimes, e \in WindowTimes}
    \cup {[kind |-> "text", time_str |-> t] : t \in TimeTexts}

TuInit ==
    /\ FitIdle
    /\ SuppIdle
    /\ MealIdle
    /\ EngIdle
    /\ FetchIdle
    /\ FindIdle
    /\ EnhIdle
    /\ tu_in \in TimeInputs
    /\ tu_call = NoCall

IsTimeInWindow ==
    /\ tu_in.kind = "window"
    /\ tu_call' = [op |-> "is_time_in_window",
                   result |-> is_time_in_window(tu_in.check_time, tu_in.start_time,
                                                tu_in.end_time)]
    /\ UNCHANGED <<tu_in, fitVars, suppVars, mealVars, engVars, fetchVars,
                   findVars, enhVars>>

ParseTimeToSeconds ==
    /\ tu_in.kind = "text"
    /\ tu_call' = [op |-> "parse_time_to_seconds",
                   result |-> IF ParseRaises(tu_in.time_str)
                              THEN Raise("invalid literal for int()")
                              ELSE Return(parse_time_to_seconds(tu_in.time_str))]
    /\ UNCHANGED <<tu_in, fitVars, suppVars, mealVars, engVars, fetchVars,
                   findVars, enhVars>>

\* seconds_to_time_string applied to what parse_time_to_seconds just returned
SecondsToTimeString ==
    /\ tu_call.op = "parse_time_to_seconds"
    /\ tu_call.result.status = "ok"
    /\ tu_call' = [op |-> "seconds_to_time_string",
                   total_seconds |-> tu_call.result.value,
                   result |-> Return(seconds_to_time_string(tu_call.result.value))]
    /\ UNCHANGED <<tu_in, fitVars, suppVars, mealVars, engVars, fetchVars,
                   findVars, enhVars>>

TuNext ==
    \/ IsTimeInWindow
    \/ ParseTimeToSeconds
    \/ SecondsToTimeString

SpecTime == TuInit /\ [][TuNext]_vars

(***************************************************************************)
(* supplement_scheduler.py                                                 *)
(***************************************************************************)
UpperChars == <<"A", "B", "C", "D", "E", "F", "G", "H", "I", "J", "K", "L", "M",
                "N", "O", "P", "Q", "R", "S", "T", "U", "V", "W", "X", "Y", "Z">>
LowerChars == <<"a", "b", "c", "d", "e", "f", "g", "h", "i", "j", "k", "l", "m",
                "n", "o", "p", "q", "r", "s", "t", "u", "v", "w", "x", "y", "z">>

\* str.lower()
UpperToLower == [c \in {UpperChars[i] : i \in 1..26} |->
                     LowerChars[CHOOSE i \in 1..26 : UpperChars[i] = c]]
LowerChar(c) == IF c \in DOMAIN UpperToLower THEN UpperToLower[c] ELSE c
Lower(text) == [i \in 1..Len(text) |-> LowerChar(text[i])]

\* sub in text
Contains(sub, text) ==
    \E i \in 1..(Len(text) - Len(sub) + 1) : SubSeq(text, i, i + Len(sub) - 1) = sub

\* item in list
InList(x, list) == \E i \in 1..Len(list) : list[i] = x

caffeine == <<"c", "a", "f", "f", "e", "i", "n", "e">>
iron == <<"i", "r", "o", "n">>
calcium == <<"c", "a", "l", "c", "i", "u", "m">>
zinc == <<"z", "i", "n", "c">>
magnesium == <<"m", "a", "g", "n", "e", "s", "i", "u", "m">>
copper == <<"c", "o", "p", "p", "e", "r">>

\* self.interactions, in the dict's order
interactions ==
    <<[substance |-> caffeine, avoid_with |-> <<magnesium, calcium>>,
       min_separation_hours |-> 2],
      [substance |-> iron, avoid_with |-> <<calcium, zinc, magnesium>>,
       min_separation_hours |-> 2],
      [substance |-> calcium, avoid_with |-> <<iron, zinc, magnesium>>,
       min_separation_hours |-> 2],
      [substance |-> zinc, avoid_with |-> <<calcium, iron, copper>>,
       min_separation_hours |-> 2]>>

\* datetime.strptime(time_str, "%H:%M").time(), on texts "H:M" of digits
parse_time_string(time_str) ==
    LET parts == Split(time_str, ":")
    IN Time(DigitsToNat(parts[1]), DigitsToNat(parts[2]))

\* t.strftime('%H:%M')
strftime_HM(t) == Format02d(t.hour) \o <<":">> \o Format02d(t.minute)

\* SupplementScheduler.minutes_to_time
sched_minutes_to_time(minutes) == Time((minutes \div 60) % 24, minutes % 60)

\* sorted(list, key=time_to_minutes): stable
RECURSIVE InsertByTime(_, _)
InsertByTime(sorted, x) ==
    IF Len(sorted) = 0 THEN <<x>>
    ELSE IF time_to_minutes(sorted[Len(sorted)].time) <= time_to_minutes(x.time)
    THEN Append(sorted, x)
    ELSE Append(InsertByTime(SubSeq(sorted, 1, Len(sorted) - 1), x), sorted[Len(sorted)])

RECURSIVE SortedPrefix(_, _)
SortedPrefix(list, n) ==
    IF n = 0 THEN <<>> ELSE InsertByTime(SortedPrefix(list, n - 1), list[n])
SortedByTime(list) == SortedPrefix(list, Len(list))

\* the entries of one daily_stack entry
StackEntryItems(stack_entry) ==
    [i \in 1..Len(stack_entry.items) |->
        [time |-> parse_time_string(stack_entry.time),
         name |-> stack_entry.items[i].name,
         dose |-> stack_entry.items[i].dose,
         type |-> "daily",
         category |-> "maintenance"]]

RECURSIVE DailyEntries(_, _)
DailyEntries(daily_stack, n) ==
    IF n = 0 THEN <<>>
    ELSE DailyEntries(daily_stack, n - 1) \o StackEntryItems(daily_stack[n])

get_daily_schedule(config) ==
    SortedByTime(DailyEntries(config.daily_stack, Len(config.daily_stack)))

\* day_of_week[:3]
DayShort(day) == SubSeq(day, 1, Min(3, Len(day)))

\* the pre-workout items that apply to the day
PreApplies(item, day) ==
    "days" \in DOMAIN item => InList(DayShort(day), item.days)

RECURSIVE PreEntries(_, _, _, _)
PreEntries(items, n, pre_time, day) ==
    IF n = 0 THEN <<>>
    ELSE PreEntries(items, n - 1, pre_time, day)
         \o (IF PreApplies(items[n], day)
             THEN <<[time |-> pre_time, name |-> items[n].name, dose |-> items[n].dose,
                     type |-> "pre_workout", category |-> "performance"]>>
             ELSE <<>>)

PostEntry(item, post_time) ==
    IF "condition" \in DOMAIN item
    THEN [time |-> post_time, name |-> item.name, dose |-> item.dose,
          type |-> "post_workout", category |-> "recovery", condition |-> item.condition]
    ELSE [time |-> post_time, name |-> item.name, dose |-> item.dose,
          type |-> "post_workout", category |-> "recovery"]

get_workout_supplements(config, workout_time, day) ==
    LET pre == config.pre_workout
        post == config.post_workout
        pre_time == sched_minutes_to_time(time_to_minutes(workout_time) + pre.timing)
        post_time == sched_minutes_to_time(time_to_minutes(workout_time) + post.timing)
    IN (IF pre.enabled THEN PreEntries(pre.items, Len(pre.items), pre_time, day) ELSE <<>>)
       \o (IF post.enabled
           THEN [i \in 1..Len(post.items) |-> PostEntry(post.items[i], post_time)]
           ELSE <<>>)

\* the warning of check_interactions for one match
Warning(supp1, supp2, rules) ==
    LET time_diff == Abs(time_to_minutes(supp1.time) - time_to_minutes(supp2.time))
    IN [supplement1 |-> supp1.name,
        supplement2 |-> supp2.name,
        time1 |-> strftime_HM(supp1.time),
        time2 |-> strftime_HM(supp2.time),
        issue |-> rules.min_separation_hours,
        current_separation |-> IntToStr(time_diff \div 60) \o <<"h", " ">>
                               \o IntToStr(time_diff % 60) \o <<"m">>]

\* an innermost loop that also warns at exactly the required separation
RECURSIVE AvoidLoop_inclusive(_, _, _, _, _)
AvoidLoop_inclusive(rules, n, supp1, supp2, supp2_name) ==
    IF n = 0 THEN <<>>
    ELSE AvoidLoop_inclusive(rules, n - 1, supp1, supp2, supp2_name)
         \o (IF /\ Contains(rules.avoid_with[n], supp2_name)
                /\ Abs(time_to_minutes(supp1.time) - time_to_minutes(supp2.time))
                       <= rules.min_separation_hours * 60
             THEN <<Warning(supp1, supp2, rules)>>
             ELSE <<>>)

\* the innermost loop: for avoid_supp in rules['avoid_with']
RECURSIVE AvoidLoop(_, _, _, _, _)
AvoidLoop(rules, n, supp1, supp2, supp2_name) ==
    IF n = 0 THEN <<>>
    ELSE AvoidLoop(rules, n - 1, supp1, supp2, supp2_name)
         \o (IF /\ Contains(rules.avoid_with[n], supp2_name)
                /\ Abs(time_to_minutes(supp1.time) - time_to_minutes(supp2.time))
                       < rules.min_separation_hours * 60
             THEN <<Warning(supp1, supp2, rules)>>
             ELSE <<>>)

\* for interaction_supp, rules in self.interactions.items()
RECURSIVE RuleLoop(_, _, _, _, _)
RuleLoop(n, supp1, supp2, supp1_name, supp2_name) ==
    IF n = 0 THEN <<>>
    ELSE RuleLoop(n - 1, supp1, supp2, supp1_name, supp2_name)
         \o (IF Contains(interactions[n].substance, supp1_name)
             THEN AvoidLoop(interactions[n], Len(interactions[n].avoid_with),
                            supp1, supp2, supp2_name)
             ELSE <<>>)

\* for j, supp2 in enumerate(supplements[i+1:], i+1)
RECURSIVE InnerLoop(_, _, _)
InnerLoop(supplements, i, j) ==
    IF j <= i THEN <<>>
    ELSE InnerLoop(supplements, i, j - 1)
         \o RuleLoop(Len(interactions), supplements[i], supplements[j],
                     Lower(supplements[i].name), Lower(supplements[j].name))

\* for i, supp1 in enumerate(supplements)
RECURSIVE OuterLoop(_, _)
OuterLoop(supplements, i) ==
    IF i = 0 THEN <<>>
    ELSE OuterLoop(supplements, i - 1) \o InnerLoop(supplements, i, Len(supplements))

check_interactions(supplements) == OuterLoop(supplements, Len(supplements))

\* a choice of entry that forgets the type
ShiftCandidates_any_type(supplements, warning) ==
    {i \in 1..Len(supplements) : supplements[i].name = warning.supplement1}

\* the entry optimize_timing moves for a warning: the first daily one of that name
ShiftCandidates(supplements, warning) ==
    {i \in 1..Len(supplements) :
        supplements[i].name = warning.supplement1 /\ supplements[i].type = "daily"}

\* a move of one hour
ShiftedTime_one_hour(t) == sched_minutes_to_time((time_to_minutes(t) + 60) % (24 * 60))

ShiftedTime(t) == sched_minutes_to_time((time_to_minutes(t) + 120) % (24 * 60))

\* a loop body without the break: every daily entry of that name moves
ApplyWarning_every_match(supplements, warning) ==
    LET c == ShiftCandidates(supplements, warning)
    IN [i \in 1..Len(supplements) |->
           IF i \in c
           THEN [supplements[i] EXCEPT !.time = ShiftedTime(supplements[i].time)]
           ELSE supplements[i]]

ApplyWarning(supplements, warning) ==
    LET c == ShiftCandidates(supplements, warning)
    IN IF c = {} THEN supplements
       ELSE LET i == CHOOSE k \in c : \A l \in c : k <= l
            IN [supplements EXCEPT ![i].time = ShiftedTime(supplements[i].time)]

\* for warning in warnings, over the warnings computed before the loop
RECURSIVE ApplyWarnings(_, _, _)
ApplyWarnings(supplements, warnings, n) ==
    IF n = 0 THEN supplements
    ELSE ApplyWarning(ApplyWarnings(supplements, warnings, n - 1), warnings[n])

optimize_timing(supplements) ==
    LET warnings == check_interactions(supplements)
    IN ApplyWarnings(supplements, warnings, Len(warnings))

Monday == <<"M", "o", "n", "d", "a", "y">>
Tuesday == <<"T", "u", "e", "s", "d", "a", "y">>
Wednesday == <<"W", "e", "d", "n", "e", "s", "d", "a", "y">>
Thursday == <<"T", "h", "u", "r", "s", "d", "a", "y">>
Friday == <<"F", "r", "i", "d", "a", "y">>
Saturday == <<"S", "a", "t", "u", "r", "d", "a", "y">>
Sunday == <<"S", "u", "n", "d", "a", "y">>
Days == <<Monday, Tuesday, Wednesday, Thursday, Friday, Saturday, Sunday>>

\* one pass of the loop of generate_weekly_schedule; `created` and `optimized`
\* are the lists before and after optimize_timing, kept beside the day's result
DaySchedule(config, workout_schedule, day) ==
    LET daily_supplements ==
            get_daily_schedule(config)
            \o (IF day \in DOMAIN workout_schedule
                THEN get_workout_supplements(config, workout_schedule[day], day)
                ELSE <<>>)
        optimized == optimize_timing(daily_supplements)
        optimized_supplements == SortedByTime(optimized)
    IN [supplements |-> optimized_supplements,
        interaction_warnings |-> check_interactions(optimized_supplements),
        total_supplements |-> Len(optimized_supplements),
        created |-> daily_supplements,
        optimized |-> optimized]

generate_weekly_schedule(config, workout_schedule) ==
    [d \in {Days[i] : i \in 1..Len(Days)} |-> DaySchedule(config, workout_schedule, d)]

(***************************************************************************)
(* The scheduler's inputs and operations.                                  *)
(***************************************************************************)
Caffeine == <<"C", "a", "f", "f", "e", "i", "n", "e">>
Magnesium == <<"M", "a", "g", "n", "e", "s", "i", "u", "m">>
Calcium == <<"C", "a", "l", "c", "i", "u", "m">>
Creatine == <<"C", "r", "e", "a", "t", "i", "n", "e">>

Item(name) == [name |-> name, dose |-> "1 cap"]

StackEntries ==
    {[time |-> t, items |-> it] :
        t \in {<<"0", "7", ":", "0", "0">>, <<"0", "8", ":", "0", "0">>, <<"2", "3", ":", "0", "0">>},
        it \in {<<Item(Caffeine)>>, <<Item(Magnesium)>>,
                <<Item(Calcium), Item(Magnesium)>>}}

DailyStacks == UNION {[1..n -> StackEntries] : n \in 0..MaxStackEntries}

PreWorkouts ==
    {[enabled |-> FALSE, timing |-> -75, items |-> <<Item(Caffeine)>>],
     [enabled |-> TRUE, timing |-> -75, items |-> <<Item(Caffeine)>>],
     [enabled |-> TRUE, timing |-> -75,
      items |-> <<[name |-> Caffeine, dose |-> "200 mg",
                   days |-> <<<<"M", "o", "n">>, <<"W", "e", "d">>, <<"F", "r", "i">>>>],
                  Item(Creatine)>>]}

PostWorkouts ==
    {[enabled |-> FALSE, timing |-> 30, items |-> <<Item(Magnesium)>>],
     [enabled |-> TRUE, timing |-> 30,
      items |-> <<[name |-> Magnesium, dose |-> "400 mg", condition |-> "hard day"]>>]}

SupplementConfigs ==
    {[daily_stack |-> d, pre_workout |-> pre, post_workout |-> post] :
        d \in DailyStacks, pre \in PreWorkouts, post \in PostWorkouts}

\* workout_schedule: day -> time of the day's workout
WorkoutSchedules ==
    {[d \in {Monday, Tuesday, Saturday} |->
          IF d = Saturday THEN Time(0, 10) ELSE Time(8, 0)],
     [d \in {Wednesday} |-> Time(22, 45)]}

SuppInit ==
    /\ FitIdle
    /\ TuIdle
    /\ MealIdle
    /\ EngIdle
    /\ FetchIdle
    /\ FindIdle
    /\ EnhIdle
    /\ supp_config \in SupplementConfigs
    /\ supp_call = NoCall

GetDailySchedule ==
    /\ supp_call' = [op |-> "get_daily_schedule",
                     result |-> get_daily_schedule(supp_config)]
    /\ UNCHANGED <<supp_config, fitVars, tuVars, mealVars, engVars, fetchVars,
                   findVars, enhVars>>

GenerateWeeklySchedule ==
    \E workout_schedule \in WorkoutSchedules :
        /\ supp_call' = [op |-> "generate_weekly_schedule",
                         workout_schedule |-> workout_schedule,
                         result |-> generate_weekly_schedule(supp_config, workout_schedule)]
        /\ UNCHANGED <<supp_config, fitVars, tuVars, mealVars, engVars, fetchVars,
                   findVars, enhVars>>

SuppNext ==
    \/ GetDailySchedule
    \/ GenerateWeeklySchedule

SpecSupp == SuppInit /\ [][SuppNext]_vars

\* check_interactions on its own, on lists of entries whose names may hold
\* several substances and whose times lie under, at and over the separation
MaxSupplements == 3

Iron == <<"I", "r", "o", "n">>
CalciumZinc == <<"C", "a", "l", "c", "i", "u", "m", " ", "Z", "i", "n", "c">>

SupplementEntries ==
    {[name |-> name, time |-> time, type |-> "daily"] :
        name \in {Caffeine, Magnesium, Iron, CalciumZinc},
        time \in {Time(7, 0), Time(8, 59), Time(9, 0)}}

SupplementLists == UNION {[1..n -> SupplementEntries] : n \in 0..MaxSupplements}

\* the call to come, with its argument
InteractInit ==
    /\ FitIdle
    /\ TuIdle
    /\ MealIdle
    /\ EngIdle
    /\ FetchIdle
    /\ FindIdle
    /\ EnhIdle
    /\ supp_config = [daily_stack |-> <<>>,
                      pre_workout |-> [enabled |-> FALSE, timing |-> 0, items |-> <<>>],
                      post_workout |-> [enabled |-> FALSE, timing |-> 0, items |-> <<>>]]
    /\ \E supplements \in SupplementLists :
        supp_call = [op |-> "call", supplements |-> supplements]

CheckInteractions ==
    /\ supp_call.op = "call"
    /\ supp_call' = [op |-> "check_interactions", supplements |-> supp_call.supplements,
                     result |-> check_interactions(supp_call.supplements)]
    /\ UNCHANGED <<supp_config, fitVars, tuVars, mealVars, engVars, fetchVars,
                   findVars, enhVars>>

SpecInteract == InteractInit /\ [][CheckInteractions]_vars

(***************************************************************************)
(* meal_generator.py                                                       *)
(*                                                                         *)
(* Item names, tags and weekend preferences are texts (the code looks for  *)
(* one inside the other); meal types, component names and recipe tags are  *)
(* only compared, and are strings.                                         *)
(***************************************************************************)
max_attempts == 100

\* name.lower().replace(' ', '_').replace('(', '').replace(')', '')
NormalizeName(name) ==
    LET lowered == Lower(name)
        underscored == [i \in 1..Len(lowered) |->
                            IF lowered[i] = " " THEN "_" ELSE lowered[i]]
    IN SelectSeq(underscored, LAMBDA c : c \notin {"(", ")"})

_get_items_by_component(db, component, meal_type) ==
    IF component \notin DOMAIN db THEN <<>>
    ELSE SelectSeq(db[component], LAMBDA item : InList(meal_type, item.meal_types))

\* a check of the exclusions of the newest item only
_check_exclusions_newest_only(selected_items) ==
    LET item_names == {NormalizeName(selected_items[i].name) :
                           i \in 1..Len(selected_items)}
        newest == selected_items[Len(selected_items)]
    IN {newest.exclusions[k] : k \in 1..Len(newest.exclusions)} \cap item_names = {}

_check_exclusions(selected_items) ==
    LET item_names == {NormalizeName(selected_items[i].name) :
                           i \in 1..Len(selected_items)}
    IN \A i \in 1..Len(selected_items) :
           {selected_items[i].exclusions[k] :
                k \in 1..Len(selected_items[i].exclusions)} \cap item_names = {}

RECURSIVE SumField(_, _, _)
SumField(items, field, n) ==
    IF n = 0 THEN 0 ELSE SumField(items, field, n - 1) + items[n][field]

_calculate_totals(selected_items) ==
    [f \in {"calories", "protein", "carbs", "fat"} |->
        SumField(selected_items, f, Len(selected_items))]

\* the protein floor and the calorie range of a rules entry, with their defaults
MinProtein(rules) == IF "min_protein" \in DOMAIN rules THEN rules.min_protein ELSE 0
TargetCalories(rules) ==
    IF "target_calories" \in DOMAIN rules THEN rules.target_calories ELSE <<0, 10000>>

_meets_requirements_no_ceiling(combination_rules, selected_items, meal_type) ==
    IF meal_type \notin DOMAIN combination_rules THEN TRUE
    ELSE LET rules == combination_rules[meal_type]
             totals == _calculate_totals(selected_items)
         IN /\ ~(totals.protein < MinProtein(rules))
            /\ TargetCalories(rules)[1] <= totals.calories

_meets_requirements(combination_rules, selected_items, meal_type) ==
    IF meal_type \notin DOMAIN combination_rules THEN TRUE
    ELSE LET rules == combination_rules[meal_type]
             totals == _calculate_totals(selected_items)
         IN /\ ~(totals.protein < MinProtein(rules))
            /\ TargetCalories(rules)[1] <= totals.calories
            /\ totals.calories <= TargetCalories(rules)[2]

RECURSIVE JoinDescriptions(_, _)
JoinDescriptions(items, n) ==
    LET one == IF items[n].portion # <<>>
               THEN items[n].name \o <<" ", "(">> \o items[n].portion \o <<")">>
               ELSE items[n].name
    IN IF n = 0 THEN <<>>
       ELSE IF n = 1 THEN one
       ELSE JoinDescriptions(items, n - 1) \o <<" ", "+", " ">> \o one

_format_meal_description(selected_items) ==
    JoinDescriptions(selected_items, Len(selected_items))

\* any(pref in item_name_key or pref in item.get('tags', []) for pref in weekend_prefs)
WeekendPreferred(item, weekend_prefs) ==
    \E k \in 1..Len(weekend_prefs) :
        \/ Contains(weekend_prefs[k], NormalizeName(item.name))
        \/ InList(weekend_prefs[k], item.tags)

\* a weekend preference that keeps the preferred items only
_apply_weekend_preferences_preferred_only(combination_rules, items, meal_type, is_weekend) ==
    IF ~is_weekend \/ meal_type \notin DOMAIN combination_rules THEN items
    ELSE LET rules == combination_rules[meal_type]
             weekend_prefs == IF "weekend_preference" \in DOMAIN rules
                              THEN rules.weekend_preference ELSE <<>>
             preferred_items == SelectSeq(items,
                                          LAMBDA item : WeekendPreferred(item, weekend_prefs))
         IN IF preferred_items = <<>> THEN items ELSE preferred_items

_apply_weekend_preferences(combination_rules, items, meal_type, is_weekend) ==
    IF ~is_weekend \/ meal_type \notin DOMAIN combination_rules THEN items
    ELSE LET rules == combination_rules[meal_type]
             weekend_prefs == IF "weekend_preference" \in DOMAIN rules
                              THEN rules.weekend_preference ELSE <<>>
         IN IF weekend_prefs = <<>> THEN items
            ELSE SelectSeq(items, LAMBDA item : WeekendPreferred(item, weekend_prefs))
                 \o SelectSeq(items, LAMBDA item : ~WeekendPreferred(item, weekend_prefs))

\* the items random.choice may pick for one component, given the selection so far
ValidItems(db, combination_rules, component, meal_type, is_weekend, selected_items) ==
    LET available_items ==
            _apply_weekend_preferences(
                combination_rules,
                _get_items_by_component(db, component, meal_type),
                meal_type, is_weekend)
    IN {available_items[i] : i \in {k \in 1..Len(available_items) :
            _check_exclusions(Append(selected_items, available_items[k]))}}

\* the selections after one component: unchanged when nothing is valid
AfterComponent(db, combination_rules, component, meal_type, is_weekend, sel) ==
    LET valid_items == ValidItems(db, combination_rules, component, meal_type,
                                  is_weekend, sel.selected_items)
    IN IF valid_items = {} THEN {sel}
       ELSE {[selected_items |-> Append(sel.selected_items, item),
              used_components |-> sel.used_components \cup {component}] :
                 item \in valid_items}

\* every outcome of the pass over components[1..n]
RECURSIVE AfterComponents(_, _, _, _, _, _)
AfterComponents(db, combination_rules, components, n, meal_type, is_weekend) ==
    IF n = 0 THEN {[selected_items |-> <<>>, used_components |-> {}]}
    ELSE UNION {AfterComponent(db, combination_rules, components[n], meal_type,
                               is_weekend, sel) :
                    sel \in AfterComponents(db, combination_rules, components, n - 1,
                                            meal_type, is_weekend)}

\* random.sample(population, k): every ordering of k distinct positions
Samples(population, k) ==
    {[i \in 1..k |-> population[pos[i]]] :
        pos \in {f \in [1..k -> 1..Len(population)] :
                     \A a, b \in 1..k : a # b => f[a] # f[b]}}

\* every outcome of the pass over the chosen optional components
RECURSIVE AfterOptional(_, _, _, _, _, _, _)
AfterOptional(db, combination_rules, chosen, n, meal_type, is_weekend, sel) ==
    IF n = 0 THEN {sel}
    ELSE UNION {AfterComponent(db, combination_rules, chosen[n], meal_type,
                               is_weekend, s) :
                    s \in AfterOptional(db, combination_rules, chosen, n - 1,
                                        meal_type, is_weekend, sel)}

\* every selected_items one pass of the while loop can build
PossibleSelections(db, combination_rules, meal_type, is_weekend) ==
    LET rules == combination_rules[meal_type]
        required_components == IF "required_components" \in DOMAIN rules
                               THEN rules.required_components ELSE <<>>
        optional_components == IF "optional_components" \in DOMAIN rules
                               THEN rules.optional_components ELSE <<>>
        WithOptional(sel) ==
            LET available_optional ==
                    SelectSeq(optional_components,
                              LAMBDA comp : comp \notin sel.used_components)
            IN UNION {
                 LET num_optional == Min(r, Len(available_optional))
                 IN IF num_optional > 0
                    THEN UNION {AfterOptional(db, combination_rules, chosen,
                                              num_optional, meal_type, is_weekend, sel) :
                                    chosen \in Samples(available_optional, num_optional)}
                    ELSE {sel} :
                 r \in 1..2}
    IN {s.selected_items :
          s \in UNION {WithOptional(sel) :
                 sel \in AfterComponents(db, combination_rules, required_components,
                                         Len(required_components), meal_type,
                                         is_weekend)}}

\* the meal option built from an accepted selection
ComponentOption(selected_items) ==
    [description |-> _format_meal_description(selected_items),
     type |-> "component_only",
     items |-> selected_items,
     totals |-> _calculate_totals(selected_items),
     prep_time |-> SumField(selected_items, "prep_time", Len(selected_items))]

ItemNames(option) == {option.items[i].name : i \in 1..Len(option.items)}

\* overlap / max(len(existing_items), len(current_items)) > 0.5
TooSimilar(existing_items, current_items) ==
    2 * Cardinality(existing_items \cap current_items)
        > Max(Cardinality(existing_items), Cardinality(current_items))

IsDuplicate(meal_options, selected_items) ==
    \E k \in 1..Len(meal_options) :
        TooSimilar(ItemNames(meal_options[k]),
                   {selected_items[i].name : i \in 1..Len(selected_items)})

\* one pass of the while loop for the selection the random choices gave
AttemptResult(combination_rules, meal_type, meal_options, selected_items) ==
    IF /\ selected_items # <<>>
       /\ _meets_requirements(combination_rules, selected_items, meal_type)
       /\ ~IsDuplicate(meal_options, selected_items)
    THEN Append(meal_options, ComponentOption(selected_items))
    ELSE meal_options

_create_recipe_meal_option(recipe) ==
    [description |-> recipe.name,
     type |-> "recipe",
     recipe_id |-> recipe.id,
     totals |-> recipe.nutrition,
     prep_time |-> recipe.total_time,
     servings |-> recipe.servings,
     tags |-> recipe.tags,
     items |-> <<>>]

_meets_recipe_requirements(combination_rules, recipe, meal_type) ==
    IF meal_type \notin DOMAIN combination_rules THEN TRUE
    ELSE LET rules == combination_rules[meal_type]
             recipe_calories == recipe.nutrition.calories
         IN /\ ~(recipe.nutrition.protein < MinProtein(rules))
            /\ TargetCalories(rules)[1] <= recipe_calories
            /\ recipe_calories <= TargetCalories(rules)[2]

_meets_tag_requirements(tag_filters, recipe) ==
    LET include_tags == IF "include_tags" \in DOMAIN tag_filters
                        THEN tag_filters.include_tags ELSE <<>>
        exclude_tags == IF "exclude_tags" \in DOMAIN tag_filters
                        THEN tag_filters.exclude_tags ELSE <<>>
    IN /\ include_tags # <<>> =>
              \E k \in 1..Len(include_tags) : InList(include_tags[k], recipe.tags)
       /\ exclude_tags # <<>> =>
              ~\E k \in 1..Len(exclude_tags) : InList(exclude_tags[k], recipe.tags)

\* list[:n]
Take(list, n) == SubSeq(list, 1, Min(Max(n, 0), Len(list)))

\* _get_recipes_for_meal, given what the fetcher found
_get_recipes_for_meal(cfg, meal_type, recipes) ==
    Take(SelectSeq(recipes,
                   LAMBDA recipe :
                       /\ _meets_recipe_requirements(cfg.combination_rules, recipe, meal_type)
                       /\ _meets_tag_requirements(cfg.tag_filters, recipe)),
         cfg.max_recipes_per_meal)

\* int(num_options * self.recipe_ratio), the ratio a fraction
TargetRecipes(cfg, num_options) ==
    Min(cfg.max_recipes_per_meal,
        Max(1, (num_options * cfg.recipe_ratio.num) \div cfg.recipe_ratio.den))

(***************************************************************************)
(* MealGenerator: a food database, rules and recipe settings; calls of     *)
(* generate_meal_options, one action per pass of the selection loop        *)
(***************************************************************************)
MaxFetched == 2

FoodItem(name, portion, calories, protein, exclusions, tags) ==
    [name |-> name, portion |-> portion, calories |-> calories, protein |-> protein,
     carbs |-> 10, fat |-> 5, prep_time |-> 5,
     meal_types |-> <<"breakfast", "snack">>, tags |-> tags, exclusions |-> exclusions]

Eggs == FoodItem(<<"E", "g", "g", "s">>, <<"2", " ", "l", "a", "r", "g", "e">>, 140, 12, <<>>, <<>>)
GreekYogurt == FoodItem(<<"G", "r", "e", "e", "k", " ", "Y", "o", "g", "u", "r", "t", " ", "(", "p", "l", "a", "i", "n", ")">>, <<>>, 100, 17, <<<<"t", "o", "a", "s", "t">>>>, <<>>)
Oats == FoodItem(<<"O", "a", "t", "s">>, <<>>, 150, 5, <<>>, <<>>)
Toast == FoodItem(<<"T", "o", "a", "s", "t">>, <<>>, 80, 3, <<>>, <<>>)
Bagel == FoodItem(<<"B", "a", "g", "e", "l">>, <<>>, 250, 9, <<<<"g", "r", "e", "e", "k", "_", "y", "o", "g", "u", "r", "t", "_", "p", "l", "a", "i", "n">>>>, <<<<"b", "r", "u", "n", "c", "h">>>>)
Banana == FoodItem(<<"B", "a", "n", "a", "n", "a">>, <<>>, 105, 1, <<>>, <<>>)
Honey == FoodItem(<<"H", "o", "n", "e", "y">>, <<"1", " ", "t", "b", "s", "p">>, 60, 0, <<>>, <<>>)

MealDatabase ==
    [proteins |-> <<Eggs, GreekYogurt>>,
     carbs |-> <<Oats, Toast, Bagel>>,
     fruits |-> <<Banana>>,
     extras |-> <<Honey>>]

\* breakfast: two required components, one optional, a protein floor and a
\* calorie range; snack: optional components only, every default
CombinationRules ==
    [breakfast |-> [required_components |-> <<"proteins", "carbs">>,
                    optional_components |-> <<"fruits">>,
                    min_protein |-> 15,
                    target_calories |-> <<250, 400>>,
                    weekend_preference |-> <<<<"b", "r", "u", "n", "c", "h">>, <<"y", "o", "g", "u", "r", "t">>>>],
     snack |-> [optional_components |-> <<"fruits", "extras">>]]

MealTypes == {"breakfast", "snack", "lunch"}
MealDays == {Monday, Saturday}

RecipeRatios == {Float(3, 10), Float(3, 5), Float(7, 10)}
OptionsPerMeal == {2, 3}
TagFilters == {<<>>, [exclude_tags |-> <<"dessert">>]}

MealConfigs ==
    {[meal_database |-> MealDatabase, combination_rules |-> CombinationRules,
      options_per_meal |-> n, recipe_fetcher |-> fetcher, enable_recipes |-> enabled,
      recipe_ratio |-> ratio, max_recipes_per_meal |-> most, tag_filters |-> filters] :
        n \in OptionsPerMeal, fetcher \in BOOLEAN, enabled \in BOOLEAN,
        ratio \in RecipeRatios, most \in {1, 2}, filters \in TagFilters}

Recipe(id, name, calories, protein, tags) ==
    [id |-> id, name |-> name, servings |-> 2, total_time |-> 20, tags |-> tags,
     nutrition |-> [calories |-> calories, protein |-> protein, carbs |-> 30, fat |-> 10]]

\* what the recipe service can hold: within the breakfast rules, within them
\* but tagged dessert, above the calorie range, below the protein floor
Recipes ==
    {Recipe("r1", <<"P", "r", "o", "t", "e", "i", "n", " ", "P", "a", "n", "c", "a", "k", "e", "s">>, 350, 25, <<"breakfast">>),
     Recipe("r2", <<"B", "a", "n", "a", "n", "a", " ", "B", "r", "e", "a", "d">>, 300, 20, <<"dessert">>),
     Recipe("r3", <<"F", "u", "l", "l", " ", "B", "r", "e", "a", "k", "f", "a", "s", "t">>, 600, 30, <<>>),
     Recipe("r4", <<"F", "r", "u", "i", "t", " ", "S", "a", "l", "a", "d">>, 300, 8, <<>>)}

\* what find_recipes_for_meal_components can return
RecipeLists ==
    UNION {{list \in [1..n -> Recipes] : \A a, b \in 1..n : a # b => list[a] # list[b]} :
              n \in 0..MaxFetched}

IsWeekend(day) == day \in {Saturday, Sunday}

\* the selections of a pass, for every call the configurations allow
Selections ==
    [meal_type \in DOMAIN CombinationRules, is_weekend \in BOOLEAN |->
        PossibleSelections(MealDatabase, CombinationRules, meal_type, is_weekend)]

MealInit ==
    /\ FitIdle
    /\ TuIdle
    /\ SuppIdle
    /\ EngIdle
    /\ FetchIdle
    /\ FindIdle
    /\ EnhIdle
    /\ mg_config \in MealConfigs
    /\ mg_pc = "idle"
    /\ mg_call = NoCall
    /\ mg_loop = NoCall
    /\ mg_result = NoCall

\* entry to _generate_component_meal_options
EnterLoop(num_options) == [num_options |-> num_options, meal_options |-> <<>>, attempts |-> 0]

\* a while condition without the attempt budget
LoopRuns_unbounded ==
    /\ mg_call.meal_type \in DOMAIN mg_config.combination_rules
    /\ Len(mg_loop.meal_options) < mg_loop.num_options

\* the while condition, after the early return for a meal type without rules
LoopRuns ==
    /\ mg_call.meal_type \in DOMAIN mg_config.combination_rules
    /\ Len(mg_loop.meal_options) < mg_loop.num_options
    /\ mg_loop.attempts < max_attempts

\* generate_meal_options(meal_type, day): the dispatch and, on the mixed path,
\* the split into recipes and components
GenerateMealOptions ==
    /\ mg_pc \in {"idle", "done"}
    /\ \E meal_type \in MealTypes, day \in MealDays :
        LET num_options == mg_config.options_per_meal
            mixed == mg_config.recipe_fetcher /\ mg_config.enable_recipes
            target_recipes == TargetRecipes(mg_config, num_options)
            target_components == num_options - target_recipes
        IN /\ mg_call' = [meal_type |-> meal_type, day |-> day,
                          num_options |-> num_options,
                          stage |-> IF mixed THEN "components" ELSE "only",
                          target_recipes |-> target_recipes,
                          component_meals |-> 0,
                          meal_options |-> <<>>]
           /\ mg_loop' = EnterLoop(IF mixed THEN target_components ELSE num_options)
    /\ mg_pc' = "loop"
    /\ mg_result' = NoCall
    /\ UNCHANGED <<mg_config, fitVars, tuVars, suppVars, engVars, fetchVars,
                   findVars, enhVars>>

\* one pass of the while loop
ComponentAttempt ==
    /\ mg_pc = "loop"
    /\ LoopRuns
    /\ \E selected_items \in Selections[mg_call.meal_type, IsWeekend(mg_call.day)] :
        mg_loop' = [mg_loop EXCEPT
                       !.attempts = @ + 1,
                       !.meal_options = AttemptResult(mg_config.combination_rules,
                                                      mg_call.meal_type, @, selected_items)]
    /\ UNCHANGED <<mg_config, mg_pc, mg_call, mg_result, fitVars, tuVars, suppVars, engVars, fetchVars,
                   findVars, enhVars>>

\* _generate_component_meal_options returns to its caller
ComponentReturn ==
    /\ mg_pc = "loop"
    /\ ~LoopRuns
    /\ LET returned == IF mg_call.meal_type \in DOMAIN mg_config.combination_rules
                       THEN mg_loop.meal_options ELSE <<>>
           meal_options == mg_call.meal_options \o returned
       IN IF mg_call.stage = "only"
          THEN /\ mg_result' = returned
               /\ mg_pc' = "done"
               /\ UNCHANGED mg_call
          ELSE IF mg_call.stage = "components"
          THEN /\ mg_call' = [mg_call EXCEPT !.meal_options = meal_options,
                                             !.component_meals = Len(returned),
                                             !.stage = "recipes"]
               /\ mg_pc' = "recipes"
               /\ UNCHANGED mg_result
          ELSE /\ mg_call' = [mg_call EXCEPT !.meal_options = meal_options]
               /\ mg_result' = Take(meal_options, mg_call.num_options)
               /\ mg_pc' = "done"
    /\ mg_loop' = NoCall
    /\ UNCHANGED <<mg_config, fitVars, tuVars, suppVars, engVars, fetchVars,
                   findVars, enhVars>>

\* the try block of generate_mixed_meal_options, the fetcher answering
AddRecipes ==
    /\ mg_pc = "recipes"
    /\ \E found \in RecipeLists :
        LET recipes == _get_recipes_for_meal(mg_config, mg_call.meal_type, found)
            taken == Take(recipes, mg_call.target_recipes)
            recipes_added == Len(taken)
            meal_options == mg_call.meal_options
                            \o [k \in 1..Len(taken) |-> _create_recipe_meal_option(taken[k])]
        IN IF /\ recipes_added < mg_call.target_recipes
              /\ mg_call.component_meals < mg_call.num_options
           THEN /\ mg_call' = [mg_call EXCEPT !.meal_options = meal_options,
                                              !.stage = "fill"]
                /\ mg_loop' = EnterLoop(mg_call.num_options - Len(meal_options))
                /\ mg_pc' = "loop"
                /\ UNCHANGED mg_result
           ELSE /\ mg_call' = [mg_call EXCEPT !.meal_options = meal_options,
                                              !.stage = "returned"]
                /\ mg_result' = Take(meal_options, mg_call.num_options)
                /\ mg_pc' = "done"
                /\ UNCHANGED mg_loop
    /\ UNCHANGED <<mg_config, fitVars, tuVars, suppVars, engVars, fetchVars,
                   findVars, enhVars>>

\* the except block: the fetcher raised before any recipe was added
AddRecipesFails ==
    /\ mg_pc = "recipes"
    /\ IF Len(mg_call.meal_options) < mg_call.num_options
       THEN /\ mg_call' = [mg_call EXCEPT !.stage = "fill"]
            /\ mg_loop' = EnterLoop(mg_call.num_options - Len(mg_call.meal_options))
            /\ mg_pc' = "loop"
            /\ UNCHANGED mg_result
       ELSE /\ mg_call' = [mg_call EXCEPT !.stage = "returned"]
            /\ mg_result' = Take(mg_call.meal_options, mg_call.num_options)
            /\ mg_pc' = "done"
            /\ UNCHANGED mg_loop
    /\ UNCHANGED <<mg_config, fitVars, tuVars, suppVars, engVars, fetchVars,
                   findVars, enhVars>>

MealNext ==
    \/ GenerateMealOptions
    \/ ComponentAttempt
    \/ ComponentReturn
    \/ AddRecipes
    \/ AddRecipesFails

SpecMeal == MealInit /\ [][MealNext]_vars

(***************************************************************************)
(* progression_engine.py                                                   *)
(*                                                                         *)
(* Day names, workout type names and clock times are strings here: the     *)
(* engine compares and copies them.  A workout record carries the fields   *)
(* the engine computes with; the display texts of a workout (warm_up,      *)
(* main_set, cool_down, the strength and core lines) are left out.         *)
(***************************************************************************)
MaxEngineWeek == 2

\* no workout_type argument
None == ""

day_mapping ==
    [Monday |-> "Mon", Tuesday |-> "Tue", Wednesday |-> "Wed", Thursday |-> "Thu",
     Friday |-> "Fri", Saturday |-> "Sat", Sunday |-> "Sun"]

_normalize_day_name(day) == Get(day_mapping, day, day)

\* list.index(x)
Index(list, x) == (CHOOSE i \in 1..Len(list) : list[i] = x /\ \A k \in 1..(i - 1) : list[k] # x) - 1

\* the keys of self.workout_types
workout_types ==
    {"run_intervals", "tempo_run", "pfa_circuit", "strength_core", "easy_run", "long_run"}

_generate_run_intervals(week, volume_multiplier) ==
    [type |-> "run_intervals", total_duration |-> 45,
     intensity |-> "hard", focus |-> "speed_endurance"]

_generate_tempo_run(week, volume_multiplier) ==
    [type |-> "tempo_run", total_duration |-> 40,
     intensity |-> "moderate", focus |-> "aerobic_endurance"]

_generate_pfa_circuit(week, volume_multiplier) ==
    [type |-> "pfa_circuit", total_duration |-> 50,
     intensity |-> "moderate", focus |-> "pfa_simulation"]

_generate_strength_core(week, volume_multiplier) ==
    [type |-> "strength_core", total_duration |-> 60,
     intensity |-> "moderate", focus |-> "strength_endurance"]

_generate_easy_run(week, volume_multiplier) ==
    [type |-> "easy_run", total_duration |-> 30,
     intensity |-> "easy", focus |-> "recovery"]

\* int(45 + total_distance * 5), total_distance = (3.0 + week * 0.2) * volume_multiplier
_generate_long_run(week, volume_multiplier) ==
    [type |-> "long_run",
     total_duration |-> 45 + ((15 + week) * volume_multiplier.num) \div volume_multiplier.den,
     intensity |-> "easy", focus |-> "aerobic_base"]

\* the calculator behind the engine: the scenario, and one whose push-up goal
\* is below the standard and whose run goal is slower than the standard
EngineFitnessConfigs ==
    {ScenarioConfig,
     [baseline |-> [run_time |-> T1500, pushups |-> 20, situps |-> 30],
      goals |-> [run_time |-> T1245, pushups |-> 30, situps |-> 45],
      pfa_standards |-> [run_time |-> T0005, pushups |-> 33, situps |-> 42]]}
EngineTimelineWeeks == 4
EngineBufferWeeks == [k \in {"run", "pushups"} |-> IF k = "run" THEN 1 ELSE 2]
EngineWeeks == 0..MaxEngineWeek

\* self.workout_types[workout_type](week, volume_multiplier); every generator
\* reads the week's targets from the calculator first and fails when that fails
Generate(workout_type, cfg, weeks, buffers, week, volume_multiplier) ==
    LET weekly_targets == get_weekly_targets(cfg, weeks, buffers, week)
    IN IF weekly_targets.status = "error" THEN weekly_targets
       ELSE Return(
            CASE workout_type = "run_intervals" -> _generate_run_intervals(week, volume_multiplier)
              [] workout_type = "tempo_run" -> _generate_tempo_run(week, volume_multiplier)
              [] workout_type = "pfa_circuit" -> _generate_pfa_circuit(week, volume_multiplier)
              [] workout_type = "strength_core" -> _generate_strength_core(week, volume_multiplier)
              [] workout_type = "easy_run" -> _generate_easy_run(week, volume_multiplier)
              [] workout_type = "long_run" -> _generate_long_run(week, volume_multiplier))

\* the rotation of the main training days
rotation == <<"run_intervals", "tempo_run", "pfa_circuit">>

rest == "rest"

\* the strength days looked at before the main training days
DayWorkoutType_strength_first(schedule, normalized_day) ==
    IF InList(normalized_day, schedule.strength_days)
    THEN "strength_core"
    ELSE IF InList(normalized_day, schedule.workout_days)
    THEN rotation[(Index(schedule.workout_days, normalized_day) % Len(rotation)) + 1]
    ELSE IF InList(normalized_day, schedule.rest_days)
    THEN IF normalized_day = "Sat" THEN "easy_run" ELSE rest
    ELSE "easy_run"

\* the workout type derived from the day; rest for a day of complete rest
DayWorkoutType(schedule, normalized_day) ==
    IF InList(normalized_day, schedule.workout_days)
    THEN rotation[(Index(schedule.workout_days, normalized_day) % Len(rotation)) + 1]
    ELSE IF InList(normalized_day, schedule.strength_days)
    THEN "strength_core"
    ELSE IF InList(normalized_day, schedule.rest_days)
    THEN IF normalized_day = "Sat" THEN "easy_run" ELSE rest
    ELSE "easy_run"

\* a day category without a time that is offered the default of another one
WorkoutTime_defaulted(tcfg, normalized_day) ==
    LET workout_times == tcfg.workout_times
        schedule == tcfg.schedule
    IN IF InList(normalized_day, schedule.workout_days)
       THEN Return(Get(workout_times, "workout_days", "06:00"))
       ELSE IF InList(normalized_day, schedule.strength_days)
       THEN Return(Get(workout_times, "strength_days", "06:00"))
       ELSE IF normalized_day = "Sat"
       THEN Return(Get(workout_times, "easy_days", "06:00"))
       ELSE Raise("No workout time configured for day")

\* the time of the workout, from the day's category; 'workout_times' is there
WorkoutTime(tcfg, normalized_day) ==
    LET workout_times == tcfg.workout_times
        schedule == tcfg.schedule
    IN IF InList(normalized_day, schedule.workout_days)
       THEN IF "workout_days" \notin DOMAIN workout_times
            THEN Raise("Missing 'workout_days' time in workout_times config")
            ELSE Return(workout_times.workout_days)
       ELSE IF InList(normalized_day, schedule.strength_days)
       THEN IF "strength_days" \notin DOMAIN workout_times
            THEN Raise("Missing 'strength_days' time in workout_times config")
            ELSE Return(workout_times.strength_days)
       ELSE IF normalized_day = "Sat"
       THEN IF "easy_days" \notin DOMAIN workout_times
            THEN Raise("Missing 'easy_days' time in workout_times config")
            ELSE Return(workout_times.easy_days)
       ELSE Raise("No workout time configured for day")

\* whether the call gets as far as a generator, which reads the targets
RunsGenerator(tcfg, day, workout_type) ==
    LET derived == IF workout_type = None
                   THEN DayWorkoutType(tcfg.schedule, _normalize_day_name(day))
                   ELSE workout_type
    IN derived \in workout_types

get_workout_for_day(tcfg, pcfg, cfg, weeks, buffers, day, week, workout_type) ==
    LET adaptation_frequency == pcfg.adaptation_periods.frequency
        reduction_factor == pcfg.adaptation_periods.reduction
        volume_multiplier ==
            get_weekly_volume_multiplier(weeks, week, adaptation_frequency, reduction_factor)
        normalized_day == _normalize_day_name(day)
        derived == IF workout_type = None
                   THEN DayWorkoutType(tcfg.schedule, normalized_day)
                   ELSE workout_type
    IN IF derived = rest /\ workout_type = None
       THEN Return([type |-> "rest", activity |-> "Complete rest or light stretching"])
       ELSE IF derived \notin workout_types
       THEN Raise("Unknown workout type")
       ELSE LET generated == Generate(derived, cfg, weeks, buffers, week, volume_multiplier)
            IN IF generated.status = "error" THEN generated
               ELSE IF "workout_times" \notin DOMAIN tcfg
               THEN Raise("Missing 'workout_times' configuration")
               ELSE IF workout_type # None
               \* normalized_day was only assigned on the other branch
               THEN Throw("UnboundLocalError", "normalized_day")
               ELSE LET workout_time == WorkoutTime(tcfg, normalized_day)
                        workout == generated.value
                    IN IF workout_time.status = "error" THEN workout_time
                       ELSE Return([type |-> workout.type,
                                    total_duration |-> workout.total_duration,
                                    intensity |-> workout.intensity,
                                    focus |-> workout.focus,
                                    week |-> week + 1,
                                    day |-> day,
                                    volume_multiplier |-> volume_multiplier,
                                    time |-> workout_time.value])

(***************************************************************************)
(* WorkoutProgressionEngine: training and progression configurations over  *)
(* a calculator; calls of get_workout_for_day                              *)
(***************************************************************************)
Schedules ==
    {[workout_days |-> <<"Mon", "Wed", "Fri">>, strength_days |-> <<"Tue", "Thu">>,
      rest_days |-> <<"Sat", "Sun">>],
     [workout_days |-> <<"Mon", "Tue", "Wed", "Thu">>, strength_days |-> <<"Mon", "Fri">>,
      rest_days |-> <<"Fri", "Sun">>],
     [workout_days |-> <<"Sat", "Mon">>, strength_days |-> <<"Wed">>,
      rest_days |-> <<"Sun", "Tue">>]}

AllWorkoutTimes ==
    [workout_days |-> "06:00", strength_days |-> "17:30", easy_days |-> "08:00"]

\* every key there, or one of them missing
WorkoutTimes ==
    {AllWorkoutTimes}
    \cup {[k \in DOMAIN AllWorkoutTimes \ {missing} |-> AllWorkoutTimes[k]] :
             missing \in DOMAIN AllWorkoutTimes}

TrainingConfigs ==
    {[schedule |-> schedule, workout_times |-> times] :
        schedule \in Schedules, times \in WorkoutTimes}
    \cup {[schedule |-> schedule] : schedule \in Schedules}

ProgressionConfigs ==
    {[adaptation_periods |-> [frequency |-> 2, reduction |-> Float(7, 10)]]}

EngineDays == DOMAIN day_mapping
\* no type, a type that is no generator, two that are
WorkoutTypeArgs == {None, "yoga", "easy_run", "long_run"}

EngInit ==
    /\ fitness_config \in EngineFitnessConfigs
    /\ timeline_weeks = EngineTimelineWeeks
    /\ buffer_weeks = EngineBufferWeeks
    /\ warned_run_goal = FALSE
    /\ printed = 0
    /\ fit_call = NoCall
    /\ TuIdle
    /\ SuppIdle
    /\ MealIdle
    /\ FetchIdle
    /\ FindIdle
    /\ EnhIdle
    /\ training_config \in TrainingConfigs
    /\ progression_config \in ProgressionConfigs
    /\ eng_call = NoCall

GetWorkoutForDay ==
    \E day \in EngineDays, week \in EngineWeeks, workout_type \in WorkoutTypeArgs :
        /\ eng_call' = [op |-> "get_workout_for_day", day |-> day, week |-> week,
                        workout_type |-> workout_type,
                        result |-> get_workout_for_day(
                                       training_config, progression_config,
                                       fitness_config, timeline_weeks, buffer_weeks,
                                       day, week, workout_type)]
        /\ IF RunsGenerator(training_config, day, workout_type)
           THEN WarnEffect
           ELSE UNCHANGED <<warned_run_goal, printed>>
        /\ UNCHANGED <<fitness_config, timeline_weeks, buffer_weeks, fit_call,
                       training_config, progression_config, tuVars, suppVars, mealVars,
                       fetchVars,
                   findVars, enhVars>>

EngNext == GetWorkoutForDay

SpecEngine == EngInit /\ [][EngNext]_vars

(***************************************************************************)
(* recipe_fetcher.RecipeFetcher                                            *)
(*                                                                         *)
(* A fetch from one API is modelled by what the HTTP layer gives that      *)
(* fetch: parsed JSON holding the recipes found (possibly none), parsed    *)
(* JSON of a shape the parsing code does not expect, or a request error.   *)
(* All requests of one fetch share that fate.  The ingredients and the     *)
(* dietary filters only shape the URLs and are left out.                   *)
(***************************************************************************)
max_failures_per_api == 3
default_max_recipes == 30
default_max_age == 3600

MaxClock == 5400
ClockStep == 1800

\* dict assignment and del
Put(d, k, v) == [x \in DOMAIN d \cup {k} |-> IF x = k THEN v ELSE d[x]]
Del(d, k) == [x \in DOMAIN d \ {k} |-> d[x]]

Apis == {ApiNames[i] : i \in 1..Len(ApiNames)}
NeedsCredentials == {"edamam", "spoonacular"}
RequestErrors == {"http_error", "timeout", "connection_error"}
NoData == [kind |-> "none", recipes |-> <<>>]

\* _make_request: the parsed JSON, or None after any request error
_make_request(response) ==
    IF response.kind \in RequestErrors THEN NoData ELSE response

\* fetch_themealdb_recipes, fetch_edamam_recipes, fetch_spoonacular_recipes
fetch_func(api_name, api_configs, response) ==
    IF api_name \in NeedsCredentials /\ ~api_configs[api_name].credentials
    THEN Return(<<>>)
    ELSE LET data == _make_request(response)
         IN  IF data = NoData
             THEN Return(<<>>)
             ELSE IF data.kind = "unexpected"
                  THEN Throw("KeyError", "unexpected response shape")
                  ELSE Return(data.recipes)

Whitespace == {" ", "\t", "\n"}

RECURSIVE LStrip(_)
LStrip(text) ==
    IF text # <<>> /\ Head(text) \in Whitespace THEN LStrip(Tail(text)) ELSE text

RECURSIVE RStrip(_)
RStrip(text) ==
    IF text # <<>> /\ text[Len(text)] \in Whitespace
    THEN RStrip(SubSeq(text, 1, Len(text) - 1))
    ELSE text

Strip(text) == RStrip(LStrip(text))

\* the loop that keeps the first recipe of every normalized name
RECURSIVE UniqueRecipes(_, _, _)
UniqueRecipes(all_recipes, unique_recipes, seen_names) ==
    IF all_recipes = <<>>
    THEN unique_recipes
    ELSE LET recipe == Head(all_recipes)
             normalized_name == Strip(Lower(recipe.name))
         IN  IF normalized_name \notin seen_names
             THEN UniqueRecipes(Tail(all_recipes), Append(unique_recipes, recipe),
                                seen_names \cup {normalized_name})
             ELSE UniqueRecipes(Tail(all_recipes), unique_recipes, seen_names)

\* the circuit breaker of fetch_recipes_for_ingredients
BreakerOpen_never(counts, api_name) == FALSE

BreakerOpen(counts, api_name) == Get(counts, api_name, 0) >= max_failures_per_api

\* api_failure_counts after the fetch of api_name returned (0) or raised (+1)
CountsAfter(counts, api_name, fetched) ==
    IF fetched.status = "ok"
    THEN Put(counts, api_name, 0)
    ELSE Put(counts, api_name, Get(counts, api_name, 0) + 1)

\* the loop index after an API's turn: past the end on the break
IndexAfter_stop_on_error(index, fetched, all_recipes, max_recipes) ==
    IF fetched.status = "ok" /\ Len(all_recipes) < max_recipes
    THEN index + 1
    ELSE Len(ApiNames) + 1

IndexAfter(index, fetched, all_recipes, max_recipes) ==
    IF fetched.status = "ok" /\ Len(all_recipes) >= max_recipes
    THEN Len(ApiNames) + 1
    ELSE index + 1

\* get_cached_recipes returning None, told apart from every returned list
ReturnNone == [status |-> "ok", none |-> TRUE]

\* get_cached_recipes: whether the entry is dropped
Expired_never(age, max_age) == FALSE

Expired_at_max_age(age, max_age) == age >= max_age

Expired(age, max_age) == age > max_age

ApiRecipe(id, name, meal_types) ==
    Recipe(id, name, 350, 25, <<>>) @@ [meal_types |-> meal_types]
Omelette == ApiRecipe("themealdb_1", <<"O", "m", "e", "l", "e", "t", "t", "e">>, <<"breakfast">>)
OmeletteAgain == ApiRecipe("edamam_7", <<"o", "m", "e", "l", "e", "t", "t", "e", " ">>, <<"lunch", "dinner">>)
Porridge == ApiRecipe("edamam_8", <<"P", "o", "r", "r", "i", "d", "g", "e">>, <<"breakfast">>)

FoundLists == {<<>>, <<Omelette>>, <<OmeletteAgain, Porridge>>}

Responses ==
    {[kind |-> "json", recipes |-> found] : found \in FoundLists}
    \cup {[kind |-> kind, recipes |-> <<>>] : kind \in RequestErrors \cup {"unexpected"}}

ApiConfig(enabled, credentials) == [enabled |-> enabled, credentials |-> credentials]

\* recipe_apis: all three usable; edamam disabled; spoonacular without its key
FetcherConfigs ==
    {[themealdb |-> ApiConfig(TRUE, FALSE), edamam |-> ApiConfig(TRUE, TRUE),
      spoonacular |-> ApiConfig(TRUE, TRUE)],
     [themealdb |-> ApiConfig(TRUE, FALSE), edamam |-> ApiConfig(FALSE, TRUE),
      spoonacular |-> ApiConfig(TRUE, TRUE)],
     [themealdb |-> ApiConfig(TRUE, FALSE), edamam |-> ApiConfig(TRUE, TRUE),
      spoonacular |-> ApiConfig(TRUE, FALSE)]}

MaxRecipesArgs == {default_max_recipes, 1}
CacheKeys == {"breakfast", "lunch"}
MaxAges == {default_max_age, 0}

FetchStart(configs) ==
    /\ rf_config \in configs
    /\ api_failure_counts = EmptyDict
    /\ rf_cache = EmptyDict
    /\ rf_now = 0
    /\ rf_pc = "idle"
    /\ rf_fetch = NoCall
    /\ rf_call = NoCall
    /\ rf_streak = [a \in Apis |-> 0]

OthersIdle == FitIdle /\ TuIdle /\ SuppIdle /\ MealIdle /\ EngIdle /\ EnhIdle

FetchInit == OthersIdle /\ FindIdle /\ FetchStart(FetcherConfigs)

otherVars == <<fitVars, tuVars, suppVars, mealVars, engVars, findVars, enhVars>>

\* fetch_recipes_for_ingredients up to its loop
FetchRecipesForIngredients ==
    /\ rf_pc = "idle"
    /\ \E max_recipes \in MaxRecipesArgs :
        rf_fetch' = [op |-> "fetch_recipes_for_ingredients", max_recipes |-> max_recipes,
                     index |-> 1, all_recipes |-> <<>>, tried |-> <<>>, raised |-> <<>>]
    /\ rf_pc' = "apis"
    /\ UNCHANGED <<rf_config, api_failure_counts, rf_cache, rf_now, rf_call, rf_streak,
                   otherVars>>

\* one turn of the loop that ends in a continue before the fetch
SkipApi ==
    /\ rf_pc = "apis"
    /\ rf_fetch.index <= Len(ApiNames)
    /\ LET api_name == ApiNames[rf_fetch.index]
       IN  \/ ~rf_config[api_name].enabled
           \/ BreakerOpen(api_failure_counts, api_name)
    /\ rf_fetch' = [rf_fetch EXCEPT !.index = @ + 1]
    /\ UNCHANGED <<rf_config, api_failure_counts, rf_cache, rf_now, rf_pc, rf_call,
                   rf_streak, otherVars>>

\* one turn of the loop that calls the API's fetch function
FetchFromApi ==
    /\ rf_pc = "apis"
    /\ rf_fetch.index <= Len(ApiNames)
    /\ LET api_name == ApiNames[rf_fetch.index]
       IN  /\ rf_config[api_name].enabled
           /\ ~BreakerOpen(api_failure_counts, api_name)
           /\ \E response \in Responses :
               LET fetched == fetch_func(api_name, rf_config, response)
                   all_recipes == IF fetched.status = "ok"
                                  THEN rf_fetch.all_recipes \o fetched.value
                                  ELSE rf_fetch.all_recipes
                   requested == ~(api_name \in NeedsCredentials
                                  /\ ~rf_config[api_name].credentials)
               IN  /\ rf_fetch' = [rf_fetch EXCEPT
                         !.index = IndexAfter(@, fetched, all_recipes, rf_fetch.max_recipes),
                         !.all_recipes = all_recipes,
                         !.tried = Append(@, api_name),
                         !.raised = IF fetched.status = "ok" THEN @
                                    ELSE Append(@, api_name)]
                   /\ api_failure_counts' = CountsAfter(api_failure_counts, api_name, fetched)
                   /\ rf_streak' = [rf_streak EXCEPT ![api_name] =
                         IF requested /\ response.kind \in RequestErrors
                         THEN Min(@ + 1, max_failures_per_api)
                         ELSE 0]
    /\ UNCHANGED <<rf_config, rf_cache, rf_now, rf_pc, rf_call, otherVars>>

\* after the loop: duplicates removed, the first max_recipes returned
FetchReturn ==
    /\ rf_pc = "apis"
    /\ rf_fetch.index > Len(ApiNames)
    /\ rf_call' = [op |-> rf_fetch.op, max_recipes |-> rf_fetch.max_recipes,
                   all_recipes |-> rf_fetch.all_recipes, tried |-> rf_fetch.tried,
                   raised |-> rf_fetch.raised,
                   result |-> Return(Take(UniqueRecipes(rf_fetch.all_recipes, <<>>, {}),
                                          rf_fetch.max_recipes))]
    /\ rf_fetch' = NoCall
    /\ rf_pc' = "idle"
    /\ UNCHANGED <<rf_config, api_failure_counts, rf_cache, rf_now, rf_streak, otherVars>>

CacheRecipes ==
    /\ rf_pc = "idle"
    /\ \E recipes \in FoundLists, cache_key \in CacheKeys :
        /\ rf_cache' = Put(rf_cache, cache_key, [recipes |-> recipes, timestamp |-> rf_now])
        /\ rf_call' = [op |-> "cache_recipes", cache_key |-> cache_key,
                       recipes |-> recipes]
    /\ UNCHANGED <<rf_config, api_failure_counts, rf_now, rf_pc, rf_fetch, rf_streak,
                   otherVars>>

GetCachedRecipes ==
    /\ rf_pc = "idle"
    /\ \E cache_key \in CacheKeys, max_age \in MaxAges :
        IF cache_key \notin DOMAIN rf_cache
        THEN /\ rf_call' = [op |-> "get_cached_recipes", cache_key |-> cache_key,
                            max_age |-> max_age, cached |-> FALSE, result |-> ReturnNone]
             /\ UNCHANGED rf_cache
        ELSE LET cached_data == rf_cache[cache_key]
                 age == rf_now - cached_data.timestamp
             IN  IF Expired(age, max_age)
                 THEN /\ rf_cache' = Del(rf_cache, cache_key)
                      /\ rf_call' = [op |-> "get_cached_recipes", cache_key |-> cache_key,
                                     max_age |-> max_age, cached |-> TRUE, age |-> age,
                                     result |-> ReturnNone]
                 ELSE /\ UNCHANGED rf_cache
                      /\ rf_call' = [op |-> "get_cached_recipes", cache_key |-> cache_key,
                                     max_age |-> max_age, cached |-> TRUE, age |-> age,
                                     result |-> Return(cached_data.recipes)]
    /\ UNCHANGED <<rf_config, api_failure_counts, rf_now, rf_pc, rf_fetch, rf_streak,
                   otherVars>>

\* time.time() moves on between calls
TimePasses ==
    /\ rf_pc = "idle"
    /\ rf_now + ClockStep <= MaxClock
    /\ rf_now' = rf_now + ClockStep
    /\ UNCHANGED <<rf_config, api_failure_counts, rf_cache, rf_pc, rf_fetch, rf_call,
                   rf_streak, otherVars>>

FetchNext == FetchRecipesForIngredients \/ SkipApi \/ FetchFromApi \/ FetchReturn

SpecFetch == FetchInit /\ [][FetchNext]_vars

\* a fetcher used with its cache while time passes; of the recipe_apis only
\* themealdb is enabled
CacheInit ==
    /\ OthersIdle
    /\ FindIdle
    /\ FetchStart({[themealdb |-> ApiConfig(TRUE, FALSE), edamam |-> ApiConfig(FALSE, FALSE),
                    spoonacular |-> ApiConfig(FALSE, FALSE)]})

CacheNext == FetchNext \/ CacheRecipes \/ GetCachedRecipes \/ TimePasses

SpecCache == CacheInit /\ [][CacheNext]_vars

\* recipe retrieval from both ends: a run drives the object it constructed, a
\* fetcher or a generator that was given one and has recipes enabled
RetrievalInit ==
    \/ FetchInit
    \/ MealInit /\ mg_config.recipe_fetcher /\ mg_config.enable_recipes

RetrievalNext ==
    \/ rf_config \in FetcherConfigs /\ FetchNext
    \/ mg_config \in MealConfigs /\ MealNext

SpecRetrieval == RetrievalInit /\ [][RetrievalNext]_vars

(***************************************************************************)
(* recipe_fetcher.py: find_recipes_for_meal_components, the fallback       *)
(* cascade over fetch_recipes_for_ingredients                              *)
(***************************************************************************)
MaxComponents == 3

key_ingredients ==
    <<[key |-> <<"e", "g", "g", "s">>,
       variants |-> <<<<"e", "g", "g", "s">>,
                      <<"b", "o", "i", "l", "e", "d", " ", "e", "g", "g", "s">>,
                      <<"s", "c", "r", "a", "m", "b", "l", "e", "d", " ", "e", "g", "g", "s">>>>],
      [key |-> <<"t", "o", "a", "s", "t">>,
       variants |-> <<<<"t", "o", "a", "s", "t">>,
                      <<"b", "r", "e", "a", "d">>>>],
      [key |-> <<"o", "a", "t", "s">>,
       variants |-> <<<<"o", "a", "t", "s">>,
                      <<"s", "t", "e", "e", "l", "-", "c", "u", "t", " ", "o", "a", "t", "s">>,
                      <<"q", "u", "i", "c", "k", " ", "o", "a", "t", "s">>>>],
      [key |-> <<"c", "h", "i", "c", "k", "e", "n">>,
       variants |-> <<<<"c", "h", "i", "c", "k", "e", "n">>,
                      <<"g", "r", "i", "l", "l", "e", "d", " ", "c", "h", "i", "c", "k", "e", "n">>>>],
      [key |-> <<"b", "e", "e", "f">>,
       variants |-> <<<<"b", "e", "e", "f">>,
                      <<"g", "r", "o", "u", "n", "d", " ", "b", "e", "e", "f">>>>],
      [key |-> <<"r", "i", "c", "e">>,
       variants |-> <<<<"r", "i", "c", "e">>,
                      <<"b", "r", "o", "w", "n", " ", "r", "i", "c", "e">>>>],
      [key |-> <<"y", "o", "g", "u", "r", "t">>,
       variants |-> <<<<"y", "o", "g", "u", "r", "t">>,
                      <<"g", "r", "e", "e", "k", " ", "y", "o", "g", "u", "r", "t">>>>],
      [key |-> <<"c", "h", "e", "e", "s", "e">>,
       variants |-> <<<<"c", "h", "e", "e", "s", "e">>,
                      <<"c", "o", "t", "t", "a", "g", "e", " ", "c", "h", "e", "e", "s", "e">>>>],
      [key |-> <<"s", "w", "e", "e", "t", " ", "p", "o", "t", "a", "t", "o">>,
       variants |-> <<<<"s", "w", "e", "e", "t", " ", "p", "o", "t", "a", "t", "o">>>>],
      [key |-> <<"a", "v", "o", "c", "a", "d", "o">>,
       variants |-> <<<<"a", "v", "o", "c", "a", "d", "o">>>>],
      [key |-> <<"s", "p", "i", "n", "a", "c", "h">>,
       variants |-> <<<<"s", "p", "i", "n", "a", "c", "h">>>>],
      [key |-> <<"b", "r", "o", "c", "c", "o", "l", "i">>,
       variants |-> <<<<"b", "r", "o", "c", "c", "o", "l", "i">>>>]>>

skip_words ==
    <<<<"w", "h", "o", "l", "e">>,
      <<"g", "r", "a", "i", "n">>,
      <<"s", "t", "e", "e", "l", "-", "c", "u", "t">>,
      <<"b", "o", "i", "l", "e", "d">>,
      <<"g", "r", "i", "l", "l", "e", "d">>,
      <<"l", "e", "a", "n">>>>

fruit_words ==
    <<<<"a", "p", "p", "l", "e">>,
      <<"b", "a", "n", "a", "n", "a">>,
      <<"o", "r", "a", "n", "g", "e">>,
      <<"b", "e", "r", "r", "y">>,
      <<"b", "e", "r", "r", "i", "e", "s">>,
      <<"g", "r", "a", "p", "e">>,
      <<"p", "e", "a", "r">>,
      <<"m", "a", "n", "g", "o">>,
      <<"p", "i", "n", "e", "a", "p", "p", "l", "e">>,
      <<"s", "t", "r", "a", "w", "b", "e", "r", "r", "i", "e", "s">>,
      <<"b", "l", "u", "e", "b", "e", "r", "r", "i", "e", "s">>>>

\* str.split(): the words between runs of whitespace
RECURSIVE Words(_)
Words(text) ==
    LET t == LStrip(text)
    IN  IF t = <<>> THEN <<>>
        ELSE LET n == IF \E i \in 1..Len(t) : t[i] \in Whitespace
                      THEN CHOOSE i \in 1..Len(t) :
                               t[i] \in Whitespace /\ \A k \in 1..(i - 1) : t[k] \notin Whitespace
                      ELSE Len(t) + 1
             IN  <<SubSeq(t, 1, n - 1)>> \o Words(SubSeq(t, n, Len(t)))

_extract_main_ingredient(name) ==
    LET clean_name == Strip(Split(Lower(name), "(")[1])
        matching == {k \in 1..Len(key_ingredients) :
                        \E v \in 1..Len(key_ingredients[k].variants) :
                            Contains(key_ingredients[k].variants[v], clean_name)}
        words == SelectSeq(Words(clean_name), LAMBDA word : ~InList(word, skip_words))
    IN  IF matching # {}
        THEN key_ingredients[CHOOSE k \in matching : \A m \in matching : k <= m].key
        ELSE IF words # <<>> THEN Head(words)
        ELSE clean_name

\* any(fruit in main_ingredient for fruit in [...])
IsFruit(main_ingredient) ==
    \E k \in 1..Len(fruit_words) : Contains(fruit_words[k], main_ingredient)

MainIngredients(meal_components) ==
    [i \in 1..Len(meal_components) |-> _extract_main_ingredient(meal_components[i].name)]

\* the two lists the loop over the components fills
ingredient_names(meal_components) ==
    SelectSeq(MainIngredients(meal_components),
              LAMBDA main_ingredient : main_ingredient # <<>> /\ ~IsFruit(main_ingredient))

fruits(meal_components) ==
    SelectSeq(MainIngredients(meal_components),
              LAMBDA main_ingredient : main_ingredient # <<>> /\ IsFruit(main_ingredient))

\* list[:i] + list[i+1:], i counted from 0
WithoutIndex(list, i) == SubSeq(list, 1, i) \o SubSeq(list, i + 2, Len(list))

\* a fallback strategy that never drops a main ingredient
search_attempts_two_only(names, sides) == <<names \o sides, names>>

search_attempts(names, sides) ==
    <<names \o sides, names>>
    \o (IF Len(names) > 1
        THEN SelectSeq([i \in 1..Len(names) |-> WithoutIndex(names, i - 1)],
                       LAMBDA reduced_list : reduced_list # <<>>)
        ELSE <<>>)

\* what find_recipes_for_meal_components returns for a non-empty fetch result
FoundForMeal(recipes, meal_type) ==
    LET filtered_recipes == SelectSeq(recipes, LAMBDA r : InList(meal_type, r.meal_types))
    IN  IF filtered_recipes # <<>> THEN filtered_recipes ELSE Take(recipes, 3)

\* a component whose name leaves no ingredient
Garnish == FoodItem(<<"(", "g", "a", "r", "n", "i", "s", "h", ")">>, <<>>, 5, 0, <<>>, <<>>)

FindComponents == {Eggs, Toast, Banana, Garnish}

FindArgs ==
    {[meal_components |-> list, meal_type |-> meal_type] :
        list \in UNION {{l \in [1..n -> FindComponents] :
                            \A a, b \in 1..n : a # b => l[a] # l[b]} : n \in 0..MaxComponents},
        meal_type \in {"breakfast", "dinner"}}

\* the recipe_apis of the runs below: themealdb alone; themealdb and edamam
FindConfigs ==
    {[themealdb |-> ApiConfig(TRUE, FALSE), edamam |-> ApiConfig(FALSE, FALSE),
      spoonacular |-> ApiConfig(FALSE, FALSE)],
     [themealdb |-> ApiConfig(TRUE, FALSE), edamam |-> ApiConfig(TRUE, TRUE),
      spoonacular |-> ApiConfig(FALSE, FALSE)]}

FindInit ==
    /\ OthersIdle
    /\ FetchStart(FindConfigs)
    /\ fr_args \in FindArgs
    /\ fr_pc = "idle"
    /\ fr_find = NoCall

notFindVars == <<fitVars, tuVars, suppVars, mealVars, engVars, enhVars>>

\* the locals of find_recipes_for_meal_components before its loop
FindStart(meal_components, meal_type) ==
    [meal_components |-> meal_components, meal_type |-> meal_type,
     ingredient_names |-> ingredient_names(meal_components),
     fruits |-> fruits(meal_components),
     search_attempts |-> search_attempts(ingredient_names(meal_components),
                                         fruits(meal_components)),
     attempt_num |-> 0, queries |-> <<>>, found |-> <<>>]

\* find_recipes_for_meal_components(meal_components, meal_type) up to its loop
FindRecipesForMealComponents ==
    /\ fr_pc \in {"idle", "done"}
    /\ em_pc = "idle"
    /\ fr_find' = FindStart(fr_args.meal_components, fr_args.meal_type)
    /\ fr_pc' = "attempts"
    /\ UNCHANGED <<fr_args, fetchVars, notFindVars>>

\* a turn of the loop over search_attempts that skips an empty list
SkipAttempt ==
    /\ fr_pc = "attempts"
    /\ fr_find.attempt_num < Len(fr_find.search_attempts)
    /\ fr_find.search_attempts[fr_find.attempt_num + 1] = <<>>
    /\ fr_find' = [fr_find EXCEPT !.attempt_num = @ + 1]
    /\ UNCHANGED <<fr_args, fr_pc, fetchVars, notFindVars>>

\* a turn that calls fetch_recipes_for_ingredients(ingredients, dietary_filters)
QueryAttempt ==
    /\ fr_pc = "attempts"
    /\ fr_find.attempt_num < Len(fr_find.search_attempts)
    /\ LET ingredients == fr_find.search_attempts[fr_find.attempt_num + 1]
       IN  /\ ingredients # <<>>
           /\ fr_find' = [fr_find EXCEPT !.queries = Append(@, ingredients)]
    /\ rf_fetch' = [op |-> "fetch_recipes_for_ingredients",
                    max_recipes |-> default_max_recipes,
                    index |-> 1, all_recipes |-> <<>>, tried |-> <<>>, raised |-> <<>>]
    /\ rf_pc' = "apis"
    /\ fr_pc' = "fetching"
    /\ UNCHANGED <<fr_args, rf_config, api_failure_counts, rf_cache, rf_now, rf_call,
                   rf_streak, notFindVars>>

\* the fetch returned: the first non-empty result ends the loop
AttemptReturns ==
    /\ fr_pc = "fetching"
    /\ rf_pc = "idle"
    /\ LET recipes == rf_call.result.value
       IN  IF recipes # <<>>
           THEN /\ fr_find' = [fr_find EXCEPT
                      !.found = Append(@, Len(recipes)),
                      !.attempt_num = @ + 1] @@
                      [result |-> Return(FoundForMeal(recipes, fr_find.meal_type))]
                /\ fr_pc' = "done"
           ELSE /\ fr_find' = [fr_find EXCEPT !.found = Append(@, 0),
                                              !.attempt_num = @ + 1]
                /\ fr_pc' = "attempts"
    /\ UNCHANGED <<fr_args, fetchVars, notFindVars>>

\* search_attempts is used up: "No recipes found after all fallback attempts"
FindGivesUp ==
    /\ fr_pc = "attempts"
    /\ fr_find.attempt_num >= Len(fr_find.search_attempts)
    /\ fr_find' = fr_find @@ [result |-> Return(<<>>)]
    /\ fr_pc' = "done"
    /\ UNCHANGED <<fr_args, fetchVars, notFindVars>>

FindNext ==
    \/ FindRecipesForMealComponents
    \/ SkipAttempt
    \/ QueryAttempt
    \/ SkipApi
    \/ FetchFromApi
    \/ FetchReturn
    \/ AttemptReturns
    \/ FindGivesUp

SpecFind == FindInit /\ [][FindNext]_vars

(***************************************************************************)
(* enhanced_meal_generator.py: EnhancedMealGenerator, a MealGenerator      *)
(* whose generate_mixed_meal_options starts from the inherited             *)
(* generate_meal_options; eg_frames is the interpreter's call stack        *)
(***************************************************************************)
MaxFrames == 6

EnhancedConfigs ==
    {cfg \in MealConfigs : /\ cfg.recipe_ratio = Float(3, 10)
                           /\ cfg.max_recipes_per_meal = 2
                           /\ cfg.tag_filters = <<>>}

PlanMealTypes == {<<"breakfast">>, <<"snack", "breakfast">>}

EnhancedInit ==
    /\ FitIdle
    /\ TuIdle
    /\ SuppIdle
    /\ EngIdle
    /\ FetchIdle
    /\ FindIdle
    /\ EnhIdle
    /\ mg_config \in EnhancedConfigs
    /\ mg_pc = "idle"
    /\ mg_call = NoCall
    /\ mg_loop = NoCall
    /\ mg_result = NoCall

notEnhVars == <<fitVars, tuVars, suppVars, engVars, fetchVars, findVars>>

RecursionError == Throw("RecursionError", "maximum recursion depth exceeded")

\* self.recipe_fetcher and self.enable_recipes
RecipesOn(cfg) == cfg.recipe_fetcher /\ cfg.enable_recipes

\* generate_mixed_meal_options(meal_type, day) called on the generator
GenerateMixedMealOptions ==
    /\ eg_pc \in {"idle", "done"}
    /\ \E meal_type \in MealTypes, day \in MealDays :
        eg_call' = [op |-> "generate_mixed_meal_options", meal_type |-> meal_type,
                    day |-> day, num_options |-> mg_config.options_per_meal]
    /\ eg_frames' = <<"generate_mixed_meal_options">>
    /\ eg_pc' = "super"
    /\ UNCHANGED <<mealVars, em_pc, em_call, notEnhVars>>

\* generate_daily_meal_plan(day, meal_types) up to its loop
GenerateDailyMealPlan ==
    /\ eg_pc \in {"idle", "done"}
    /\ \E day \in MealDays, meal_types \in PlanMealTypes :
        eg_call' = [op |-> "generate_daily_meal_plan", day |-> day,
                    meal_types |-> meal_types, index |-> 1, daily_plan |-> EmptyDict,
                    meal_type |-> None, num_options |-> mg_config.options_per_meal]
    /\ eg_frames' = <<"generate_daily_meal_plan">>
    /\ eg_pc' = "plan"
    /\ UNCHANGED <<mealVars, em_pc, em_call, notEnhVars>>

\* a turn of the loop of generate_daily_meal_plan: the call for a meal type
PlanMeal ==
    /\ eg_pc = "plan"
    /\ eg_call.index <= Len(eg_call.meal_types)
    /\ eg_call' = [eg_call EXCEPT !.meal_type = eg_call.meal_types[eg_call.index]]
    /\ eg_frames' = Append(eg_frames, "generate_mixed_meal_options")
    /\ eg_pc' = "super"
    /\ UNCHANGED <<mealVars, em_pc, em_call, notEnhVars>>

\* generate_daily_meal_plan returns daily_plan
PlanReturn ==
    /\ eg_pc = "plan"
    /\ eg_call.index > Len(eg_call.meal_types)
    /\ eg_call' = eg_call @@ [result |-> Return(eg_call.daily_plan)]
    /\ eg_frames' = <<>>
    /\ eg_pc' = "done"
    /\ UNCHANGED <<mealVars, em_pc, em_call, notEnhVars>>

\* super().generate_meal_options(meal_type, day, num_options): the inherited
\* dispatch calls self.generate_mixed_meal_options, which is this class's
\* method again, or _generate_component_meal_options
SuperGenerateMealOptions ==
    /\ eg_pc = "super"
    /\ IF RecipesOn(mg_config)
       THEN IF Len(eg_frames) + 2 > MaxFrames
            THEN /\ eg_call' = eg_call @@ [result |-> RecursionError]
                 /\ eg_frames' = <<>>
                 /\ eg_pc' = "done"
                 /\ UNCHANGED mealVars
            ELSE /\ eg_frames' = eg_frames \o <<"generate_meal_options",
                                                "generate_mixed_meal_options">>
                 /\ UNCHANGED <<eg_pc, eg_call, mealVars>>
       ELSE /\ eg_frames' = eg_frames \o <<"generate_meal_options",
                                           "_generate_component_meal_options">>
            /\ mg_call' = [meal_type |-> eg_call.meal_type, day |-> eg_call.day,
                           num_options |-> eg_call.num_options, stage |-> "only",
                           target_recipes |-> 0, component_meals |-> 0,
                           meal_options |-> <<>>]
            /\ mg_loop' = EnterLoop(eg_call.num_options)
            /\ mg_pc' = "loop"
            /\ mg_result' = NoCall
            /\ eg_pc' = "components"
            /\ UNCHANGED <<mg_config, eg_call>>
    /\ UNCHANGED <<em_pc, em_call, notEnhVars>>

\* how the try block ends for one component meal: a recipe, none, an exception
Enhancements == {"component_with_recipe", "component_with_no_recipe", "component_only"}

\* the loop over component_meals and the return of meal_options[:num_options]
EnhanceComponentMeals ==
    /\ eg_pc = "components"
    /\ mg_pc = "done"
    /\ \E type \in [1..Len(mg_result) -> Enhancements] :
        /\ ~RecipesOn(mg_config) => \A k \in 1..Len(mg_result) : type[k] = "component_only"
        /\ LET meal_options == [k \in 1..Len(mg_result) |->
                                   [mg_result[k] EXCEPT !.type = type[k]]]
               returned == Take(meal_options, eg_call.num_options)
           IN  IF eg_call.op = "generate_daily_meal_plan"
               THEN /\ eg_call' = [eg_call EXCEPT
                          !.daily_plan = Put(@, eg_call.meal_type, returned),
                          !.index = @ + 1]
                    /\ eg_frames' = <<"generate_daily_meal_plan">>
                    /\ eg_pc' = "plan"
               ELSE /\ eg_call' = eg_call @@ [result |-> Return(returned)]
                    /\ eg_frames' = <<>>
                    /\ eg_pc' = "done"
    /\ mg_pc' = "idle"
    /\ UNCHANGED <<mg_config, mg_call, mg_loop, mg_result, em_pc, em_call, notEnhVars>>

EnhancedNext ==
    \/ GenerateMixedMealOptions
    \/ GenerateDailyMealPlan
    \/ PlanMeal
    \/ PlanReturn
    \/ SuperGenerateMealOptions
    \/ ComponentAttempt
    \/ ComponentReturn
    \/ EnhanceComponentMeals

SpecEnhanced == EnhancedInit /\ [][EnhancedNext]_vars

(***************************************************************************)
(* EnhancedMealGenerator._fetch_recipes_for_meal over the fetcher's cache, *)
(* its cascade and its fetch loop                                          *)
(***************************************************************************)
general_max_recipes == 10

\* f"{meal_type}_{hash(str(selected_components)) if selected_components else 'general'}":
\* one key per meal type and component list, no components standing for general
cache_key(meal_type, selected_components) ==
    [meal_type |-> meal_type, selected_components |-> selected_components]

\* value * portion_multiplier, the multiplier a fraction
Scaled(value, portion_multiplier) ==
    Float(value * portion_multiplier.num, portion_multiplier.den)

_adjust_recipe_nutrition_for_portion(recipe, target_calories) ==
    LET current_calories == recipe.nutrition.calories
        \* target_mid / current_calories = (low + high) / (2 * current_calories)
        portion_multiplier == Float(target_calories[1] + target_calories[2],
                                    2 * current_calories)
    IN  IF current_calories = 0 THEN recipe
        ELSE IF \/ 10 * portion_multiplier.num < 3 * portion_multiplier.den
                \/ portion_multiplier.num > 3 * portion_multiplier.den
        THEN recipe
        ELSE [recipe EXCEPT
                 !.servings = Max(1, (recipe.servings * portion_multiplier.num)
                                         \div portion_multiplier.den),
                 !.nutrition = [calories |-> Scaled(recipe.nutrition.calories, portion_multiplier),
                                protein |-> Scaled(recipe.nutrition.protein, portion_multiplier),
                                carbs |-> Scaled(recipe.nutrition.carbs, portion_multiplier),
                                fat |-> Scaled(recipe.nutrition.fat, portion_multiplier)]]

\* the filter and the portion adjustment of _fetch_recipes_for_meal
adjusted_recipes(cfg, meal_type, recipes) ==
    LET suitable_recipes ==
            SelectSeq(recipes,
                      LAMBDA recipe :
                          /\ _meets_recipe_requirements(cfg.combination_rules, recipe, meal_type)
                          /\ _meets_tag_requirements(cfg.tag_filters, recipe))
        rules == Get(cfg.combination_rules, meal_type, EmptyDict)
    IN  [k \in 1..Len(suitable_recipes) |->
            _adjust_recipe_nutrition_for_portion(suitable_recipes[k], TargetCalories(rules))]

\* return adjusted_recipes[:self.max_recipes_per_meal]
ReturnedRecipes(recipes, max_recipes_per_meal) == Take(recipes, max_recipes_per_meal)

MealFetchConfigs ==
    {cfg \in MealConfigs : /\ cfg.recipe_ratio = Float(3, 10)
                           /\ cfg.options_per_meal = 2}

MealFetchArgs ==
    {[meal_components |-> list, meal_type |-> meal_type] :
        list \in {<<>>, <<Banana>>, <<Eggs, Banana>>},
        meal_type \in {"breakfast", "snack"}}

MealFetchInit ==
    /\ FitIdle
    /\ TuIdle
    /\ SuppIdle
    /\ EngIdle
    /\ EnhIdle
    /\ mg_config \in MealFetchConfigs
    /\ mg_pc = "idle"
    /\ mg_call = NoCall
    /\ mg_loop = NoCall
    /\ mg_result = NoCall
    /\ FetchStart({[themealdb |-> ApiConfig(TRUE, FALSE), edamam |-> ApiConfig(FALSE, FALSE),
                    spoonacular |-> ApiConfig(FALSE, FALSE)]})
    /\ fr_args \in MealFetchArgs
    /\ fr_pc = "idle"
    /\ fr_find = NoCall

restVars == <<fitVars, tuVars, suppVars, mealVars, engVars, eg_pc, eg_frames, eg_call>>

\* _fetch_recipes_for_meal(meal_type, selected_components) up to the search:
\* the guard, the cache check and the call that looks for recipes
FetchRecipesForMeal ==
    /\ em_pc \in {"idle", "done"}
    /\ fr_pc \in {"idle", "done"}
    /\ rf_pc = "idle"
    /\ LET meal_type == fr_args.meal_type
           selected_components == fr_args.meal_components
           key == cache_key(meal_type, selected_components)
           call == [op |-> "_fetch_recipes_for_meal", meal_type |-> meal_type,
                    selected_components |-> selected_components, cache_key |-> key,
                    earlier |-> IF em_pc = "done" THEN em_call.result ELSE NoCall]
           age == rf_now - rf_cache[key].timestamp
       IN  IF ~RecipesOn(mg_config)
           THEN /\ em_call' = call @@ [from_cache |-> FALSE, result |-> Return(<<>>)]
                /\ em_pc' = "done"
                /\ UNCHANGED <<rf_cache, rf_fetch, rf_pc, fr_pc, fr_find>>
           ELSE IF /\ key \in DOMAIN rf_cache
                   /\ ~Expired(age, default_max_age)
                   /\ rf_cache[key].recipes # <<>>
           THEN /\ em_call' = call @@ [from_cache |-> TRUE,
                                       result |-> Return(rf_cache[key].recipes)]
                /\ em_pc' = "done"
                /\ UNCHANGED <<rf_cache, rf_fetch, rf_pc, fr_pc, fr_find>>
           ELSE /\ em_call' = call @@ [from_cache |-> FALSE]
                /\ rf_cache' = IF key \in DOMAIN rf_cache /\ Expired(age, default_max_age)
                               THEN Del(rf_cache, key)
                               ELSE rf_cache
                /\ IF selected_components # <<>>
                   THEN /\ fr_find' = FindStart(selected_components, meal_type)
                        /\ fr_pc' = "attempts"
                        /\ em_pc' = "finding"
                        /\ UNCHANGED <<rf_fetch, rf_pc>>
                   ELSE /\ rf_fetch' = [op |-> "fetch_recipes_for_ingredients",
                                        max_recipes |-> general_max_recipes,
                                        index |-> 1, all_recipes |-> <<>>,
                                        tried |-> <<>>, raised |-> <<>>]
                        /\ rf_pc' = "apis"
                        /\ em_pc' = "fetching"
                        /\ UNCHANGED <<fr_pc, fr_find>>
    /\ UNCHANGED <<fr_args, rf_config, api_failure_counts, rf_now, rf_call, rf_streak,
                   restVars>>

\* the search returned: filter, adjust, cache_recipes, return
MealRecipesFound ==
    /\ \/ em_pc = "finding" /\ fr_pc = "done"
       \/ em_pc = "fetching" /\ rf_pc = "idle"
    /\ LET recipes == IF em_pc = "finding" THEN fr_find.result.value
                      ELSE rf_call.result.value
           adjusted == adjusted_recipes(mg_config, em_call.meal_type, recipes)
       IN  /\ rf_cache' = Put(rf_cache, em_call.cache_key,
                              [recipes |-> adjusted, timestamp |-> rf_now])
           /\ em_call' = em_call @@
                  [result |-> Return(ReturnedRecipes(adjusted, mg_config.max_recipes_per_meal))]
    /\ em_pc' = "done"
    /\ UNCHANGED <<fr_args, fr_pc, fr_find, rf_config, api_failure_counts, rf_now, rf_pc,
                   rf_fetch, rf_call, rf_streak, restVars>>

MealFetchNext ==
    \/ FetchRecipesForMeal
    \/ SkipAttempt
    \/ QueryAttempt
    \/ SkipApi
    \/ FetchFromApi
    \/ FetchReturn
    \/ AttemptReturns
    \/ FindGivesUp
    \/ MealRecipesFound
    \/ TimePasses

SpecMealFetch == MealFetchInit /\ [][MealFetchNext]_vars

(***************************************************************************)
(* Properties                                                              *)
(***************************************************************************)
RunBuffer == Get(buffer_weeks, "run", 0)
StrengthBuffer(exercise) == Get(buffer_weeks, exercise, 0)
GoalMeetsStandard(exercise) ==
    fitness_config.goals[exercise] >= fitness_config.pfa_standards[exercise]

\* the progression is as long as the timeline and flat from the last active week on
LengthAndPlateau(result, buffer) ==
    /\ result.status = "ok"
    /\ Len(result.value) = timeline_weeks
    /\ \A i \in (timeline_weeks - buffer)..(timeline_weeks - 1) :
           result.value[i + 1] = result.value[timeline_weeks - buffer]

\* C1: for 0 <= buffer < weeks (and rep goal >= standard) both progressions
\* have exactly `weeks` values, and every value at an index >= weeks - buffer
\* equals the value at index weeks - buffer - 1.
C1_LengthAndPlateau ==
    /\ (fit_call.op = "calculate_run_progression" /\ RunBuffer < timeline_weeks)
           => LengthAndPlateau(fit_call.result, RunBuffer)
    /\ (/\ fit_call.op = "calculate_strength_progression"
        /\ StrengthBuffer(fit_call.exercise) < timeline_weeks
        /\ GoalMeetsStandard(fit_call.exercise))
           => LengthAndPlateau(fit_call.result, StrengthBuffer(fit_call.exercise))

\* a run progression that moves for at least two weeks and then holds for two
C1_Witness ==
    /\ fit_call.op = "calculate_run_progression"
    /\ RunBuffer >= 2
    /\ timeline_weeks - RunBuffer >= 2
    /\ fit_call.result.status = "ok"
    /\ fit_call.result.value[1] # fit_call.result.value[timeline_weeks - RunBuffer]
    /\ fit_call.result.value[timeline_weeks] = fit_call.result.value[timeline_weeks - RunBuffer]

AdaptationSet(f) ==
    {k * f - 1 : k \in 1..timeline_weeks} \cap (0..(timeline_weeks - 1))

\* C4: calculate_adaptation_weeks(f) is exactly {f-1, 2f-1, ...} below `weeks`,
\* and the volume multiplier is the reduction factor on those weeks, 1.0 elsewhere.
C4_AdaptationWeeks ==
    /\ fit_call.op = "calculate_adaptation_weeks" =>
           LET w == fit_call.result.value
           IN /\ {w[i] : i \in 1..Len(w)} = AdaptationSet(fit_call.adaptation_frequency)
              /\ \A i \in 1..(Len(w) - 1) : w[i] < w[i + 1]
    /\ fit_call.op = "get_weekly_volume_multiplier" =>
           fit_call.result.value =
               IF fit_call.week \in AdaptationSet(fit_call.adaptation_frequency)
               THEN fit_call.reduction_factor
               ELSE Float(1, 1)

\* the third deload week of a timeline gets the reduced volume
C4_Witness ==
    /\ fit_call.op = "get_weekly_volume_multiplier"
    /\ fit_call.adaptation_frequency = 3
    /\ fit_call.week = 8
    /\ timeline_weeks > 8
    /\ fit_call.reduction_factor = Float(7, 10)
    /\ fit_call.result.value = Float(7, 10)

\* C5: for end > start the window is start <= check <= end; for end <= start
\* it crosses midnight: check >= start or check <= end.
C5_Window ==
    tu_call.op = "is_time_in_window" =>
        LET check == time_to_minutes(tu_in.check_time)
            start == time_to_minutes(tu_in.start_time)
            end == time_to_minutes(tu_in.end_time)
        IN tu_call.result =
               IF end > start THEN start <= check /\ check <= end
               ELSE check >= start \/ check <= end

\* 00:30 is inside the window 23:00 - 01:00
C5_Witness ==
    /\ tu_call.op = "is_time_in_window"
    /\ tu_in.check_time = Time(0, 30)
    /\ tu_in.start_time = Time(23, 0)
    /\ tu_in.end_time = Time(1, 0)
    /\ tu_call.result = TRUE

\* "M:SS": minutes without leading zeros, two second digits, seconds < 60
WellFormedMSS(text) ==
    LET parts == Split(text, ":")
    IN /\ Len(parts) = 2
       /\ IsIntText(parts[1])
       /\ (Len(parts[1]) > 1 => parts[1][1] # "0")
       /\ Len(parts[2]) = 2
       /\ parts[2][1] \in {"0", "1", "2", "3", "4", "5"}
       /\ parts[2][2] \in Digit

\* C6: seconds_to_time_string(parse_time_to_seconds(s)) = s for well-formed "M:SS".
C6_RoundTrip ==
    (tu_call.op = "seconds_to_time_string" /\ WellFormedMSS(tu_in.time_str))
        => tu_call.result.value = tu_in.time_str

\* "12:05" came back as "12:05"
C6_Witness ==
    /\ tu_call.op = "seconds_to_time_string"
    /\ tu_in.time_str = <<"1", "2", ":", "0", "5">>
    /\ tu_call.total_seconds = 725
    /\ tu_call.result.value = tu_in.time_str

RunScenario ==
    /\ fitness_config.baseline.run_time = T1500
    /\ fitness_config.goals.run_time = T1245
    /\ fitness_config.pfa_standards.run_time = T1336
    /\ timeline_weeks = 16
    /\ RunBuffer = 4

\* C7: 15:00 -> 12:45 (standard 13:36) over 16 weeks with 4 buffer weeks:
\* 12 effective weeks, 11.25 s a week, "14:49" at index 0, "12:45" at index 11
\* and indices 12..15 equal to index 11.
C7_RunScenario ==
    (RunScenario /\ fit_call.op = "calculate_run_progression") =>
        LET v == fit_call.result.value
            effective_weeks == timeline_weeks - RunBuffer
            total == time_string_to_seconds(fitness_config.baseline.run_time)
                         - RunTargetSeconds(fitness_config)
        IN /\ fit_call.result.status = "ok"
           /\ effective_weeks = 12
           /\ 4 * total = 45 * effective_weeks
           /\ v[1] = <<"1", "4", ":", "4", "9">>
           /\ v[12] = T1245
           /\ \A i \in 13..16 : v[i] = v[12]

C7_Witness ==
    /\ RunScenario
    /\ fit_call.op = "calculate_run_progression"
    /\ Len(fit_call.result.value) = 16
    /\ fit_call.result.value[2] = <<"1", "4", ":", "3", "8">>

\* C9: in every buffer week and in the last active week the progression is at
\* the effective goal: the goal for reps; for the run the goal, or the
\* standard when the goal is slower than the standard.
C9_PlateauIsGoal ==
    /\ (/\ fit_call.op = "calculate_strength_progression"
        /\ StrengthBuffer(fit_call.exercise) < timeline_weeks
        /\ GoalMeetsStandard(fit_call.exercise))
           => /\ fit_call.result.status = "ok"
              /\ \A i \in (timeline_weeks - StrengthBuffer(fit_call.exercise) - 1)
                              ..(timeline_weeks - 1) :
                     fit_call.result.value[i + 1] = fitness_config.goals[fit_call.exercise]
    /\ (fit_call.op = "calculate_run_progression" /\ RunBuffer < timeline_weeks)
           => /\ fit_call.result.status = "ok"
              /\ \A i \in (timeline_weeks - RunBuffer - 1)..(timeline_weeks - 1) :
                     parse_time_to_seconds(fit_call.result.value[i + 1]) =
                         LET goal == parse_time_to_seconds(fitness_config.goals.run_time)
                             standard == parse_time_to_seconds(
                                             fitness_config.pfa_standards.run_time)
                         IN IF goal > standard THEN standard ELSE goal

\* pushups 20 -> 50 over 16 weeks with 2 buffer weeks: 50 at indices 13, 14, 15
C9_Witness ==
    /\ fit_call.op = "calculate_strength_progression"
    /\ fit_call.exercise = "pushups"
    /\ fitness_config.baseline.pushups = 20
    /\ fitness_config.goals.pushups = 50
    /\ timeline_weeks = 16
    /\ StrengthBuffer("pushups") = 2
    /\ fit_call.result.status = "ok"
    /\ fit_call.result.value[13] = 48
    /\ \A i \in 14..16 : fit_call.result.value[i] = 50

Failed(result) == result.status = "error" /\ "value" \notin DOMAIN result
Returned(result) == result.status = "ok" /\ Len(result.value) = timeline_weeks

\* C10: the strength progression fails exactly when goal < standard or
\* weeks - buffer <= 0, the run progression exactly when weeks - buffer <= 0,
\* a progression is returned otherwise, and get_weekly_targets fails whenever
\* one of the three progressions fails.
C10_Failures ==
    /\ fit_call.op = "calculate_strength_progression" =>
           LET fails == \/ ~GoalMeetsStandard(fit_call.exercise)
                        \/ timeline_weeks - StrengthBuffer(fit_call.exercise) <= 0
           IN IF fails THEN Failed(fit_call.result) ELSE Returned(fit_call.result)
    /\ fit_call.op = "calculate_run_progression" =>
           IF timeline_weeks - RunBuffer <= 0
           THEN Failed(fit_call.result) ELSE Returned(fit_call.result)
    /\ (/\ fit_call.op = "get_weekly_targets"
        /\ \/ timeline_weeks - RunBuffer <= 0
           \/ \E e \in Exercises :
                  \/ ~GoalMeetsStandard(e)
                  \/ timeline_weeks - StrengthBuffer(e) <= 0)
           => Failed(fit_call.result)

\* the targets fail on the pushup goal alone
C10_Witness ==
    /\ fit_call.op = "get_weekly_targets"
    /\ timeline_weeks - RunBuffer > 0
    /\ timeline_weeks - StrengthBuffer("pushups") > 0
    /\ timeline_weeks - StrengthBuffer("situps") > 0
    /\ ~GoalMeetsStandard("pushups")
    /\ Failed(fit_call.result)

\* the day of the scenario: pre-workout Caffeine at 06:45, daily Magnesium at 08:00
CaffeineMagnesiumDay(rec) ==
    /\ Len(rec.created) = 2
    /\ \E i \in 1..2 : /\ rec.created[i].name = Caffeine
                       /\ rec.created[i].type = "pre_workout"
                       /\ rec.created[i].time = Time(6, 45)
    /\ \E i \in 1..2 : /\ rec.created[i].name = Magnesium
                       /\ rec.created[i].type = "daily"
                       /\ rec.created[i].time = Time(8, 0)

\* C8: pre-workout Caffeine at 06:45 with daily Magnesium at 08:00 gives exactly
\* one warning (Caffeine vs Magnesium, 1h 15m apart, 2 hours required) on the
\* time-ordered entries, Caffeine stays at 06:45, and optimize_timing changes
\* the time of daily entries only.
C8_CaffeineMagnesium ==
    supp_call.op = "generate_weekly_schedule" =>
        \A d \in DOMAIN supp_call.result :
            LET rec == supp_call.result[d]
                w == rec.interaction_warnings
            IN /\ CaffeineMagnesiumDay(rec) =>
                      /\ Len(w) = 1
                      /\ w[1].supplement1 = Caffeine
                      /\ w[1].supplement2 = Magnesium
                      /\ w[1].time1 = <<"0", "6", ":", "4", "5">>
                      /\ w[1].time2 = <<"0", "8", ":", "0", "0">>
                      /\ w[1].current_separation = <<"1", "h", " ", "1", "5", "m">>
                      /\ w[1].issue = 2
                      /\ rec.supplements[1].name = Caffeine
                      /\ rec.supplements[1].type = "pre_workout"
                      /\ rec.supplements[1].time = Time(6, 45)
               /\ Len(rec.optimized) = Len(rec.created)
               /\ \A i \in 1..Len(rec.created) :
                      rec.optimized[i].time # rec.created[i].time
                          => rec.created[i].type = "daily"

C8_Witness ==
    /\ supp_call.op = "generate_weekly_schedule"
    /\ CaffeineMagnesiumDay(supp_call.result[Monday])
    /\ Len(supp_call.result[Monday].interaction_warnings) = 1
    /\ supp_call.result[Monday].optimized = supp_call.result[Monday].created


\* the item names of two options overlap by more than half of the larger set
NearDuplicates(first, second) ==
    /\ first.items # <<>>
    /\ second.items # <<>>
    /\ TooSimilar(ItemNames(first), ItemNames(second))

\* C2: for a meal type that has combination rules, every option a call of
\* generate_meal_options returns, component-based or recipe, has total protein
\* at least the meal type's min_protein and total calories within the
\* inclusive target_calories range.
C2_OptionsMeetRequirements ==
    (mg_pc = "done" /\ mg_call.meal_type \in DOMAIN mg_config.combination_rules) =>
        LET rules == mg_config.combination_rules[mg_call.meal_type]
        IN \A k \in 1..Len(mg_result) :
               /\ mg_result[k].totals.protein >= MinProtein(rules)
               /\ mg_result[k].totals.calories >= TargetCalories(rules)[1]
               /\ mg_result[k].totals.calories <= TargetCalories(rules)[2]

\* a breakfast call on the mixed path that returned a component option and a
\* recipe option
C2_Witness ==
    /\ mg_pc = "done"
    /\ mg_call.meal_type = "breakfast"
    /\ \E k \in 1..Len(mg_result) : mg_result[k].type = "component_only"
    /\ \E k \in 1..Len(mg_result) : mg_result[k].type = "recipe"

\* C3: in the list one call of generate_meal_options returns, on the
\* component-only path and on the mixed path with its backfill, no two options
\* with non-empty item lists have item-name sets that overlap by more than 0.5
\* of the larger set.
C3_NoNearDuplicates ==
    mg_pc = "done" =>
        \A i, j \in 1..Len(mg_result) :
            i < j => ~NearDuplicates(mg_result[i], mg_result[j])


\* the operations that run calculate_run_progression
RunOps == {"calculate_run_progression", "get_weekly_targets", "generate_progression_report"}

\* the configuration with the standard written in as the run goal
GoalAtStandard ==
    [fitness_config EXCEPT !.goals.run_time = fitness_config.pfa_standards.run_time]

\* C11: with a run goal slower than the standard, calculate_run_progression
\* returns what it returns for a goal equal to the standard, and returns a
\* progression whenever the buffer leaves a week; over every sequence of calls
\* the goal warning is written once, by the first call that runs
\* calculate_run_progression, and by no other call.
C11_WarnedOnce ==
    /\ [](/\ printed <= 1
          /\ (fit_call.op = "calculate_run_progression"
                /\ RunGoalOverridden(fitness_config)) =>
                 /\ fit_call.result = calculate_run_progression(
                                          GoalAtStandard, timeline_weeks, buffer_weeks)
                 /\ timeline_weeks - RunBuffer > 0 => Returned(fit_call.result))
    /\ [][/\ (fit_call'.op \in RunOps /\ RunGoalOverridden(fitness_config)) => printed' = 1
          /\ (fit_call'.op \notin RunOps \/ ~RunGoalOverridden(fitness_config)) =>
                 printed' = printed]_vars

\* a second call with the goal overridden: the warning was written before it
C11_Witness ==
    /\ RunGoalOverridden(fitness_config)
    /\ fit_call.op = "get_weekly_targets"
    /\ fit_call.result.status = "ok"
    /\ warned_run_goal
    /\ printed = 1


\* the last engine call passed no workout type
DerivedCall == eng_call.op = "get_workout_for_day" /\ eng_call.workout_type = None

\* the short name the schedule lists use for the day of the last engine call
CalledDay == day_mapping[eng_call.day]

\* C12: without an explicit workout type, in every week, a day at position p
\* of workout_days gets [run_intervals, tempo_run, pfa_circuit][p mod 3], a
\* day of strength_days that is not a workout day gets strength_core, and a
\* day of rest_days in neither other list gets a rest record, Saturday
\* easy_run; the type does not depend on the week.
C12_DayArchetype ==
    (DerivedCall /\ eng_call.result.status = "ok") =>
        LET schedule == training_config.schedule
            type == eng_call.result.value.type
            positions == {p \in 0..(Len(schedule.workout_days) - 1) :
                              schedule.workout_days[p + 1] = CalledDay}
        IN IF positions # {}
           THEN \A p \in positions :
                    type = <<"run_intervals", "tempo_run", "pfa_circuit">>[(p % 3) + 1]
           ELSE IF InList(CalledDay, schedule.strength_days)
           THEN type = "strength_core"
           ELSE InList(CalledDay, schedule.rest_days) =>
                    type = IF CalledDay = "Sat" THEN "easy_run" ELSE "rest"

\* the fourth workout day, in a later week: the rotation starts again
C12_Witness ==
    /\ DerivedCall
    /\ eng_call.week > 0
    /\ eng_call.result.status = "ok"
    /\ Len(training_config.schedule.workout_days) = 4
    /\ CalledDay = training_config.schedule.workout_days[4]
    /\ eng_call.result.value.type = "run_intervals"

\* the workout_times key of the category of the last call's day
TimeKey ==
    IF InList(CalledDay, training_config.schedule.workout_days) THEN "workout_days"
    ELSE IF InList(CalledDay, training_config.schedule.strength_days) THEN "strength_days"
    ELSE IF CalledDay = "Sat" THEN "easy_days"
    ELSE "none"

\* C13: without an explicit workout type the call returns a rest record, or a
\* workout whose time is the workout_times entry configured for the day's
\* category (workout_days, strength_days, easy_days for Saturday), or it fails;
\* a workout type that is none of the six generators always fails.
C13_TimeOrError ==
    /\ (DerivedCall /\ eng_call.result.status = "ok"
          /\ eng_call.result.value.type # "rest") =>
           /\ "workout_times" \in DOMAIN training_config
           /\ TimeKey \in DOMAIN training_config.workout_times
           /\ "time" \in DOMAIN eng_call.result.value
           /\ eng_call.result.value.time = training_config.workout_times[TimeKey]
    /\ (eng_call.op = "get_workout_for_day"
          /\ eng_call.workout_type \notin workout_types \cup {None}) =>
           eng_call.result.status = "error"

\* a Saturday of rest whose easy_days time is missing: the call fails
C13_Witness ==
    /\ DerivedCall
    /\ CalledDay = "Sat"
    /\ TimeKey = "easy_days"
    /\ "workout_times" \in DOMAIN training_config
    /\ "easy_days" \notin DOMAIN training_config.workout_times
    /\ eng_call.result.status = "error"
    /\ eng_call.result.error = "ValueError"


\* the time `shifts` moves of 120 minutes after t, around midnight
MovedBy(t, shifts) == minutes_to_time(time_to_minutes(t) + 120 * shifts)

\* the warnings of the pass over the created entries that name entry i as
\* supplement1, entry i being the first daily entry of its name; none otherwise
ShiftsOf(created, i) ==
    LET warnings == check_interactions(created)
        first_daily == /\ created[i].type = "daily"
                       /\ \A k \in 1..(i - 1) :
                              ~(created[k].name = created[i].name /\ created[k].type = "daily")
    IN IF first_daily
       THEN Cardinality({n \in 1..Len(warnings) : warnings[n].supplement1 = created[i].name})
       ELSE 0

\* C14, as claimed: in one run of generate_weekly_schedule the final time of
\* every entry is the time it was created with or that time plus exactly 120
\* minutes (mod 24h).
C14_AtMostOneShift ==
    supp_call.op = "generate_weekly_schedule" =>
        \A d \in DOMAIN supp_call.result :
            LET rec == supp_call.result[d]
            IN \A i \in 1..Len(rec.created) :
                   \/ rec.optimized[i].time = rec.created[i].time
                   \/ rec.optimized[i].time = MovedBy(rec.created[i].time, 1)

\* C14, amended: in one run of generate_weekly_schedule the final time of
\* every entry is the time it was created with plus 120 minutes (mod 24h) for
\* each warning of the pass that names it as supplement1, the entry being the
\* first daily entry of that name; every other entry keeps its time.
C14_ShiftPerWarning ==
    supp_call.op = "generate_weekly_schedule" =>
        \A d \in DOMAIN supp_call.result :
            LET rec == supp_call.result[d]
            IN /\ Len(rec.optimized) = Len(rec.created)
               /\ \A i \in 1..Len(rec.created) :
                      rec.optimized[i].time
                          = MovedBy(rec.created[i].time, ShiftsOf(rec.created, i))

\* a day with an entry named by two warnings: it ends 240 minutes later
C14_Witness ==
    /\ supp_call.op = "generate_weekly_schedule"
    /\ \E d \in DOMAIN supp_call.result :
        LET rec == supp_call.result[d]
        IN \E i \in 1..Len(rec.created) :
               /\ ShiftsOf(rec.created, i) = 2
               /\ rec.optimized[i].time = MovedBy(rec.created[i].time, 2)
               /\ rec.optimized[i].time # MovedBy(rec.created[i].time, 1)


\* the exclusions an item declares
Exclusions(item) == {item.exclusions[k] : k \in 1..Len(item.exclusions)}

\* C15: no component-based option the generator returns holds two items
\* declared incompatible: no item's exclusions contain the normalized name
\* (lower case, spaces to underscores, parentheses removed) of an item of the
\* same option, whichever of the two was selected first.
C15_NoExcludedPair ==
    mg_pc = "done" =>
        \A k \in 1..Len(mg_result) :
            mg_result[k].type = "component_only" =>
                \A i, j \in 1..Len(mg_result[k].items) :
                    NormalizeName(mg_result[k].items[j].name)
                        \notin Exclusions(mg_result[k].items[i])

\* a returned option that starts with an item declaring an exclusion and goes
\* on with an item it does not exclude
C15_Witness ==
    /\ mg_pc = "done"
    /\ \E k \in 1..Len(mg_result) :
        /\ mg_result[k].type = "component_only"
        /\ Len(mg_result[k].items) >= 2
        /\ mg_result[k].items[1] = GreekYogurt
        /\ mg_result[k].items[2] = Oats


\* C16: the component meal search makes at most 100 attempts, every pass of
\* its loop, accepted, rejected or duplicate, taking one; it returns at most
\* num_options options, and with fewer acceptable combinations it returns the
\* shorter, possibly empty, list and raises nothing.
C16_BoundedSearch ==
    /\ [](mg_pc = "loop" =>
              /\ mg_loop.attempts <= max_attempts
              /\ Len(mg_loop.meal_options) <= mg_loop.num_options
              /\ Len(mg_loop.meal_options) <= mg_loop.attempts)
    /\ [](mg_pc = "done" =>
              /\ Len(mg_result) <= mg_call.num_options
              /\ \A k \in 1..Len(mg_result) :
                     mg_result[k].type \in {"component_only", "recipe"})
    /\ [][(mg_pc = "loop" /\ mg_pc' = "loop" /\ mg_call' = mg_call) =>
              /\ mg_loop'.attempts = mg_loop.attempts + 1
              /\ Len(mg_loop'.meal_options) \in
                     {Len(mg_loop.meal_options), Len(mg_loop.meal_options) + 1}]_vars
    /\ [][(mg_pc = "loop" /\ mg_pc' = "done" /\ mg_call.stage = "only") =>
              mg_result' = IF mg_call.meal_type \in DOMAIN mg_config.combination_rules
                           THEN mg_loop.meal_options ELSE <<>>]_vars

\* the budget is spent with fewer options than asked for
C16_Witness ==
    /\ mg_pc = "loop"
    /\ mg_call.stage = "only"
    /\ mg_loop.attempts = max_attempts
    /\ Len(mg_loop.meal_options) < mg_loop.num_options


\* a fetch_recipes_for_ingredients call has returned and no other has begun
FetchReturned == rf_pc = "idle" /\ rf_call.op = "fetch_recipes_for_ingredients"

Members(list) == {list[i] : i \in 1..Len(list)}

\* the APIs the loop reached with the API enabled and its breaker closed but
\* whose fetch function was not called
LeftOut ==
    {j \in 1..Len(ApiNames) :
        /\ rf_config[ApiNames[j]].enabled
        /\ ~BreakerOpen(api_failure_counts, ApiNames[j])
        /\ ApiNames[j] \notin Members(rf_call.tried)}

\* the call ended on the break: enough recipes, and the last fetch returned them
EndedOnBreak(j) ==
    /\ Len(rf_call.all_recipes) >= rf_call.max_recipes
    /\ rf_call.tried # <<>>
    /\ LET last == rf_call.tried[Len(rf_call.tried)]
       IN  /\ last \notin Members(rf_call.raised)
           /\ Index(ApiNames, last) + 1 < j

\* C17: fetch_recipes_for_ingredients always returns a list, whatever its fetch
\* functions raised; it calls the fetch functions in the order themealdb,
\* edamam, spoonacular, and an enabled API with a closed breaker is left out
\* only by the break after a successful fetch, never because a fetch raised.
\* In generate_mixed_meal_options, when the recipe step adds nothing (the
\* retrieval raised or found nothing) the component options gathered so far are
\* kept, the call goes on to the backfill or returns, and what it returns
\* starts with those component options.
C17_FailuresContained ==
    /\ [](FetchReturned =>
            /\ rf_call.result.status = "ok"
            /\ \A a, b \in 1..Len(rf_call.tried) :
                a < b => Index(ApiNames, rf_call.tried[a]) < Index(ApiNames, rf_call.tried[b])
            /\ \A j \in LeftOut : EndedOnBreak(j))
    /\ [][(rf_pc = "apis" /\ rf_pc' = "apis"
            /\ Len(rf_fetch'.raised) > Len(rf_fetch.raised)) =>
                /\ rf_fetch'.index = rf_fetch.index + 1
                /\ rf_fetch'.all_recipes = rf_fetch.all_recipes]_vars
    /\ [][(mg_pc = "recipes" /\ mg_call'.meal_options = mg_call.meal_options) =>
            \/ /\ mg_pc' = "loop"
               /\ mg_loop' = EnterLoop(mg_call.num_options - Len(mg_call.meal_options))
            \/ /\ mg_pc' = "done"
               /\ mg_result' = Take(mg_call.meal_options, mg_call.num_options)]_vars
    /\ [](mg_pc = "done" /\ mg_call.stage # "only" =>
            \A k \in 1..Min(mg_call.component_meals, Len(mg_result)) :
                /\ mg_result[k].type = "component_only"
                /\ mg_result[k] = mg_call.meal_options[k])

\* a fetch raised and a later API was still tried and gave the recipes returned
C17_Witness ==
    /\ FetchReturned
    /\ rf_call.result.value # <<>>
    /\ \E a, b \in 1..Len(rf_call.tried) :
        /\ a < b
        /\ rf_call.tried[a] \in Members(rf_call.raised)
        /\ rf_call.tried[b] \notin Members(rf_call.raised)


\* C18: once the latest max_failures_per_api fetches of an API in a row were
\* emptied by a request error (HTTP error, timeout, connection failure), no
\* later call invokes that API's fetch function; and every call returns a list.
C18_BreakerSkipsAfterRequestErrors ==
    /\ [][(rf_pc = "apis" /\ rf_pc' = "apis"
            /\ Len(rf_fetch'.tried) > Len(rf_fetch.tried)) =>
                rf_streak[ApiNames[rf_fetch.index]] < max_failures_per_api]_vars
    /\ [](FetchReturned => rf_call.result.status = "ok")


\* C19 as stated: over any sequence of fetch, cache_recipes and
\* get_cached_recipes operations no key of the recipe cache or of the
\* failure-counter map is ever removed.
C19_KeysNeverRemoved ==
    [][/\ DOMAIN rf_cache \subseteq DOMAIN rf_cache'
       /\ DOMAIN api_failure_counts \subseteq DOMAIN api_failure_counts']_vars

\* C19 amended: no key of the failure-counter map is ever removed; a key
\* leaves the recipe cache only in a get_cached_recipes call for that key made
\* when the entry is older than max_age, and such a call always removes it;
\* every other step leaves the entries of the cache as they are, except
\* cache_recipes, which writes the entry of its key.
C19_KeysRemovedOnlyOnExpiry ==
    /\ [][/\ DOMAIN api_failure_counts \subseteq DOMAIN api_failure_counts'
          /\ \A k \in DOMAIN rf_cache \ DOMAIN rf_cache' :
                /\ rf_call'.op = "get_cached_recipes"
                /\ rf_call'.cache_key = k
                /\ rf_now - rf_cache[k].timestamp > rf_call'.max_age
          /\ \A k \in DOMAIN rf_cache \cap DOMAIN rf_cache' :
                \/ rf_cache'[k] = rf_cache[k]
                \/ rf_call'.op = "cache_recipes" /\ rf_call'.cache_key = k]_vars
    /\ [](rf_call.op = "get_cached_recipes" /\ rf_call.cached =>
            (rf_call.age > rf_call.max_age => rf_call.cache_key \notin DOMAIN rf_cache))

\* a cached entry was dropped by a get_cached_recipes call on a fetcher that
\* holds another entry and a failure count
C19_Witness ==
    /\ rf_call.op = "get_cached_recipes"
    /\ rf_call.cached
    /\ rf_call.age > rf_call.max_age
    /\ rf_call.cache_key \notin DOMAIN rf_cache
    /\ DOMAIN rf_cache # {}
    /\ \E a \in DOMAIN api_failure_counts : api_failure_counts[a] > 0


\* the (i, j, k, a) of the claim: positions i < j, a rule k whose substance is
\* in the lower-cased name at i, a substance a of its avoid_with in the
\* lower-cased name at j, and the two times closer than the rule's separation
InteractionMatches(supplements) ==
    {m \in (1..Len(supplements)) \X (1..Len(supplements)) \X (1..Len(interactions)) \X (1..3) :
        /\ m[1] < m[2]
        /\ m[4] <= Len(interactions[m[3]].avoid_with)
        /\ Contains(interactions[m[3]].substance, Lower(supplements[m[1]].name))
        /\ Contains(interactions[m[3]].avoid_with[m[4]], Lower(supplements[m[2]].name))
        /\ LET minutes_i == supplements[m[1]].time.hour * 60 + supplements[m[1]].time.minute
               minutes_j == supplements[m[2]].time.hour * 60 + supplements[m[2]].time.minute
           IN  /\ minutes_i - minutes_j < interactions[m[3]].min_separation_hours * 60
               /\ minutes_j - minutes_i < interactions[m[3]].min_separation_hours * 60}

\* the warning record of a match
MatchWarning(supplements, m) ==
    LET supp1 == supplements[m[1]]
        supp2 == supplements[m[2]]
        minutes_i == supp1.time.hour * 60 + supp1.time.minute
        minutes_j == supp2.time.hour * 60 + supp2.time.minute
        apart == IF minutes_i < minutes_j THEN minutes_j - minutes_i ELSE minutes_i - minutes_j
    IN  [supplement1 |-> supp1.name,
         supplement2 |-> supp2.name,
         time1 |-> Format02d(supp1.time.hour) \o <<":">> \o Format02d(supp1.time.minute),
         time2 |-> Format02d(supp2.time.hour) \o <<":">> \o Format02d(supp2.time.minute),
         issue |-> interactions[m[3]].min_separation_hours,
         current_separation |-> NatToStr(apart \div 60) \o <<"h", " ">>
                                \o NatToStr(apart % 60) \o <<"m">>]

\* C20: check_interactions returns a list that holds one warning per match
\* (i, j, k, a) and nothing else: every record in it is the warning of a match,
\* and every warning record occurs in it as many times as there are matches
\* that give that record.
C20_WarningsAreTheMatches ==
    supp_call.op = "check_interactions" =>
        LET supplements == supp_call.supplements
            warnings == supp_call.result
            matches == InteractionMatches(supplements)
        IN  /\ Len(warnings) = Cardinality(matches)
            /\ \A n \in 1..Len(warnings) :
                  \E m \in matches : warnings[n] = MatchWarning(supplements, m)
            /\ \A m \in matches :
                  Cardinality({n \in 1..Len(warnings) :
                                  warnings[n] = MatchWarning(supplements, m)})
                  = Cardinality({other \in matches :
                                  MatchWarning(supplements, other)
                                      = MatchWarning(supplements, m)})

\* one pair of entries matches under two rules, another pair is exactly the
\* required separation apart and gives no warning
C20_Witness ==
    /\ supp_call.op = "check_interactions"
    /\ Len(supp_call.supplements) = 3
    /\ supp_call.supplements[1].name = CalciumZinc
    /\ supp_call.supplements[2].name = Iron
    /\ supp_call.supplements[3].name = Iron
    /\ supp_call.supplements[1].time = Time(7, 0)
    /\ supp_call.supplements[2].time = Time(8, 59)
    /\ supp_call.supplements[3].time = Time(9, 0)
    /\ Len(supp_call.result) = 2
    /\ supp_call.result[1].supplement1 = CalciumZinc
    /\ supp_call.result[1].supplement2 = Iron
    /\ supp_call.result[1].current_separation = <<"1", "h", " ", "5", "9", "m">>
    /\ supp_call.result[2] = supp_call.result[1]


\* the warnings optimize_timing starts from that name entry i as supplement1
WarningsNaming(created, i) ==
    LET warnings == check_interactions(created)
    IN  {n \in 1..Len(warnings) : warnings[n].supplement1 = created[i].name}

\* entry i is the first daily-type entry of its name
FirstDailyOfName(created, i) ==
    /\ created[i].type = "daily"
    /\ \A k \in 1..(i - 1) :
          created[k].name # created[i].name \/ created[k].type # "daily"

\* C21: optimize_timing returns as many entries as it was given, each with the
\* name, dose, type and every other field it had; the time of an entry that is
\* the first daily-type entry of its name is advanced by 120 minutes (mod 1440)
\* once for each warning, of those computed on the list as given, that names it
\* as supplement1; every other entry, and so every pre_workout and post_workout
\* entry, keeps its time.  The warnings are not computed again after a shift.
C21_SinglePass ==
    supp_call.op = "generate_weekly_schedule" =>
        \A d \in DOMAIN supp_call.result :
            LET created == supp_call.result[d].created
                optimized == supp_call.result[d].optimized
            IN  /\ Len(optimized) = Len(created)
                /\ \A i \in 1..Len(created) :
                      LET minutes == created[i].time.hour * 60 + created[i].time.minute
                          shifts == IF FirstDailyOfName(created, i)
                                    THEN Cardinality(WarningsNaming(created, i))
                                    ELSE 0
                          moved == (minutes + 120 * shifts) % 1440
                      IN  /\ optimized[i] = [created[i] EXCEPT
                                                !.time = Time(moved \div 60, moved % 60)]
                          /\ created[i].type # "daily" => optimized[i] = created[i]

\* a day on which a shift left a conflict behind: an entry was moved and the
\* day's remaining warnings still name it
C21_Witness ==
    /\ supp_call.op = "generate_weekly_schedule"
    /\ \E d \in DOMAIN supp_call.result :
        LET rec == supp_call.result[d]
        IN  /\ \E i \in 1..Len(rec.created) :
                  /\ rec.optimized[i].time # rec.created[i].time
                  /\ \E n \in 1..Len(rec.interaction_warnings) :
                        rec.interaction_warnings[n].supplement1 = rec.created[i].name
            /\ \E i \in 1..Len(rec.created) : rec.created[i].type = "pre_workout"


\* a mixed-path call of generate_meal_options is under way or has returned
MixedCall == mg_pc # "idle" /\ mg_call.stage # "only"

\* C22: on the mixed path target_recipes is
\* min(max_recipes_per_meal, max(1, round(num_options * recipe_ratio))) and
\* target_components is num_options - target_recipes; the list returned holds
\* at most target_recipes recipe options and at most num_options options.
C22_RoundedSplit ==
    /\ MixedCall =>
          /\ mg_call.target_recipes
                 = Min(mg_config.max_recipes_per_meal,
                       Max(1, Round(mg_call.num_options * mg_config.recipe_ratio.num,
                                    mg_config.recipe_ratio.den)))
          /\ mg_call.stage = "components" /\ mg_pc = "loop" =>
                 mg_loop.num_options = mg_call.num_options - mg_call.target_recipes
    /\ (MixedCall /\ mg_pc = "done") =>
          /\ Len(mg_result) <= mg_call.num_options
          /\ Cardinality({k \in 1..Len(mg_result) : mg_result[k].type = "recipe"})
                 <= mg_call.target_recipes


\* the step is a turn of the fetch loop that calls the fetch function of API a
Tries(a) ==
    /\ rf_pc = "apis"
    /\ rf_pc' = "apis"
    /\ Len(rf_fetch'.tried) = Len(rf_fetch.tried) + 1
    /\ rf_fetch'.tried[Len(rf_fetch'.tried)] = a

\* ... and that fetch function raised
FailsIn(a) == Tries(a) /\ Len(rf_fetch'.raised) = Len(rf_fetch.raised) + 1

FailureCount(a) == IF a \in DOMAIN api_failure_counts THEN api_failure_counts[a] ELSE 0

\* C23: the failure count of an API is the number of its fetches that raised
\* since its last fetch that returned: a fetch that raises adds one to the count
\* of that API and leaves every other count alone, a fetch that returns sets
\* the count of that API to 0 and leaves every other count alone, and no other
\* step changes a count.  An API whose count has reached max_failures_per_api
\* is not tried, so its count stays there and no later call tries it.
C23_BreakerPerApi ==
    [][\A a \in Apis :
          /\ Tries(a) =>
                /\ FailureCount(a) < max_failures_per_api
                /\ rf_config[a].enabled
                /\ api_failure_counts'[a] = IF FailsIn(a) THEN FailureCount(a) + 1 ELSE 0
                /\ \A b \in Apis \ {a} :
                      /\ b \in DOMAIN api_failure_counts' <=> b \in DOMAIN api_failure_counts
                      /\ b \in DOMAIN api_failure_counts =>
                            api_failure_counts'[b] = api_failure_counts[b]
          /\ FailureCount(a) >= max_failures_per_api =>
                /\ ~Tries(a)
                /\ api_failure_counts'[a] = api_failure_counts[a]
          /\ (\A b \in Apis : ~Tries(b)) => api_failure_counts' = api_failure_counts]_vars

\* a call has returned that left out an enabled API with three failures in a
\* row, tried another API after it and returned that one's recipes
C23_Witness ==
    /\ FetchReturned
    /\ rf_config.themealdb.enabled
    /\ FailureCount("themealdb") = max_failures_per_api
    /\ rf_call.tried # <<>>
    /\ "themealdb" \notin Members(rf_call.tried)
    /\ rf_call.result.value # <<>>


\* a step that is a call of cache_recipes, of get_cached_recipes
StoreStep == rf_call'.op = "cache_recipes" /\ (rf_call' # rf_call \/ rf_cache' # rf_cache)
ReadStep == rf_call'.op = "get_cached_recipes" /\ (rf_call' # rf_call \/ rf_cache' # rf_cache)

\* C24: in any sequence of cache_recipes and get_cached_recipes calls with the
\* clock moving between them, the cache starts empty; cache_recipes puts its
\* list under its key with the time of the call; get_cached_recipes returns
\* the list held under the key when its age is at most max_age, returns
\* nothing and drops the entry when it is older (so a later read without a new
\* store finds no entry), and returns nothing for a key that holds no entry;
\* no other step touches the cache.
C24_ReadsReturnLastStore ==
    /\ (rf_cache = EmptyDict)
    /\ [][IF StoreStep
          THEN rf_cache' = Put(rf_cache, rf_call'.cache_key,
                               [recipes |-> rf_call'.recipes, timestamp |-> rf_now])
          ELSE IF ReadStep
          THEN LET k == rf_call'.cache_key
               IN  IF k \notin DOMAIN rf_cache
                   THEN rf_call'.result = ReturnNone /\ rf_cache' = rf_cache
                   ELSE IF rf_now - rf_cache[k].timestamp <= rf_call'.max_age
                   THEN /\ rf_call'.result = Return(rf_cache[k].recipes)
                        /\ rf_cache' = rf_cache
                   ELSE /\ rf_call'.result = ReturnNone
                        /\ rf_cache' = Del(rf_cache, k)
          ELSE rf_cache' = rf_cache]_vars

\* an entry read when it is exactly max_age (the default) old is returned
C24_Witness ==
    /\ rf_call.op = "get_cached_recipes"
    /\ rf_call.cached
    /\ rf_call.max_age = default_max_age
    /\ rf_call.age = default_max_age
    /\ rf_call.result = Return(rf_cache[rf_call.cache_key].recipes)
    /\ rf_call.result.value # <<>>


\* the queries the fallback cascade has to issue for main and side ingredients
CascadeQueries(main, side) ==
    LET dropped == IF Len(main) >= 2
                   THEN [i \in 1..Len(main) |->
                            [k \in 1..(Len(main) - 1) |-> IF k < i THEN main[k] ELSE main[k + 1]]]
                   ELSE <<>>
    IN  SelectSeq(<<main \o side, main>> \o dropped, LAMBDA q : q # <<>>)

\* C25: find_recipes_for_meal_components issues its queries in the order: all
\* extracted ingredients (main, then fruit/side), main only, then, with two or
\* more main ingredients, main with one removed at a time in index order,
\* empty lists left out; every query before the last one issued returned
\* nothing; a query that returns a recipe ends the cascade with a non-empty
\* result; the result is empty only after every query returned nothing.
C25_CascadeOrder ==
    fr_pc # "idle" =>
        LET expected == CascadeQueries(fr_find.ingredient_names, fr_find.fruits)
            queries == fr_find.queries
            found == fr_find.found
        IN  /\ Len(queries) <= Len(expected)
            /\ \A i \in 1..Len(queries) : queries[i] = expected[i]
            /\ Len(found) = IF fr_pc = "fetching" THEN Len(queries) - 1 ELSE Len(queries)
            /\ \A i \in 1..(Len(found) - 1) : found[i] = 0
            /\ fr_pc # "done" => \A i \in 1..Len(found) : found[i] = 0
            /\ fr_pc = "done" =>
                 /\ fr_find.result.status = "ok"
                 /\ IF fr_find.result.value = <<>>
                    THEN queries = expected /\ \A i \in 1..Len(found) : found[i] = 0
                    ELSE found # <<>> /\ found[Len(found)] > 0

\* Banana, Eggs and Toast: four queries went out, eggs and toast before the
\* banana, and none of them found a recipe
C25_Witness ==
    /\ fr_pc = "done"
    /\ fr_find.meal_components = <<Banana, Eggs, Toast>>
    /\ fr_find.queries = <<<<<<"e", "g", "g", "s">>, <<"t", "o", "a", "s", "t">>,
                              <<"b", "a", "n", "a", "n", "a">>>>,
                           <<<<"e", "g", "g", "s">>, <<"t", "o", "a", "s", "t">>>>,
                           <<<<"t", "o", "a", "s", "t">>>>,
                           <<<<"e", "g", "g", "s">>>>>>
    /\ fr_find.result = Return(<<>>)


EnhancedEnded == eg_pc = "done"

\* C26: every generate_mixed_meal_options call of an EnhancedMealGenerator
\* that has ended returned a list of at most num_options options, and every
\* generate_daily_meal_plan call that has ended returned a plan with at most
\* options_per_meal options for each meal type, with recipes enabled and a
\* fetcher configured as well as without.
C26_MixedOptionsReturned ==
    EnhancedEnded =>
        /\ eg_call.result.status = "ok"
        /\ IF eg_call.op = "generate_mixed_meal_options"
           THEN Len(eg_call.result.value) <= eg_call.num_options
           ELSE \A meal_type \in DOMAIN eg_call.result.value :
                    Len(eg_call.result.value[meal_type]) <= mg_config.options_per_meal


\* a finished call that named a recognized workout type for a day of the
\* schedule, with a time configured for every kind of day
ExplicitTypeCall ==
    /\ eng_call.op = "get_workout_for_day"
    /\ eng_call.workout_type \in workout_types
    /\ "workout_times" \in DOMAIN training_config
    /\ training_config.workout_times = AllWorkoutTimes
    /\ \/ InList(_normalize_day_name(eng_call.day), training_config.schedule.workout_days)
       \/ InList(_normalize_day_name(eng_call.day), training_config.schedule.strength_days)

\* C27: get_workout_for_day with an explicitly supplied recognized
\* workout_type returns, for a scheduled day and any week, a workout of that
\* type carrying the week, day, volume_multiplier and time fields.
C27_ExplicitTypeReturned ==
    ExplicitTypeCall =>
        /\ eng_call.result.status = "ok"
        /\ eng_call.result.value.type = eng_call.workout_type
        /\ eng_call.result.value.week = eng_call.week + 1
        /\ eng_call.result.value.day = eng_call.day
        /\ {"volume_multiplier", "time"} \subseteq DOMAIN eng_call.result.value


\* entries a and b of a day form a pair of the interaction table, either way
\* round, and lie closer together than the table's separation
ConflictingPair(a, b) ==
    \E k \in 1..Len(interactions) :
        /\ \E n \in 1..Len(interactions[k].avoid_with) :
              \/ /\ Contains(interactions[k].substance, Lower(a.name))
                 /\ Contains(interactions[k].avoid_with[n], Lower(b.name))
              \/ /\ Contains(interactions[k].substance, Lower(b.name))
                 /\ Contains(interactions[k].avoid_with[n], Lower(a.name))
        /\ time_to_minutes(a.time) - time_to_minutes(b.time)
               < interactions[k].min_separation_hours * 60
        /\ time_to_minutes(b.time) - time_to_minutes(a.time)
               < interactions[k].min_separation_hours * 60

\* C28: in every day of generate_weekly_schedule, any two entries that form a
\* pair of the interaction table and are closer than the required separation
\* are named together by one of the day's interaction_warnings, whichever of
\* the two is taken earlier.
C28_ConflictsReportedEitherOrder ==
    supp_call.op = "generate_weekly_schedule" =>
        \A d \in DOMAIN supp_call.result :
            LET supplements == supp_call.result[d].supplements
                warnings == supp_call.result[d].interaction_warnings
            IN  \A i, j \in 1..Len(supplements) :
                    i < j /\ ConflictingPair(supplements[i], supplements[j]) =>
                        \E n \in 1..Len(warnings) :
                            {warnings[n].supplement1, warnings[n].supplement2}
                                = {supplements[i].name, supplements[j].name}


MealFetchEnded == em_pc = "done" /\ RecipesOn(mg_config)

\* C29: a _fetch_recipes_for_meal call answered from the cache entry of its
\* meal type and components, that is, made before the entry expired, returns
\* the list the call before it returned, and every call returns at most
\* max_recipes_per_meal recipes.
C29_SecondCallSameList ==
    MealFetchEnded =>
        /\ Len(em_call.result.value) <= mg_config.max_recipes_per_meal
        /\ em_call.from_cache =>
              /\ em_call.earlier # NoCall
              /\ Len(em_call.result.value) = Len(em_call.earlier.value)
              /\ em_call.result.value = em_call.earlier.value


\* the items of a component offered for a meal type, before and after the
\* weekend preference
OfferedItems(component, meal_type) ==
    _get_items_by_component(MealDatabase, component, meal_type)
ReorderedItems(component, meal_type, is_weekend) ==
    _apply_weekend_preferences(CombinationRules, OfferedItems(component, meal_type),
                               meal_type, is_weekend)
RulePreferred(item, meal_type) ==
    /\ meal_type \in DOMAIN CombinationRules
    /\ "weekend_preference" \in DOMAIN CombinationRules[meal_type]
    /\ WeekendPreferred(item, CombinationRules[meal_type].weekend_preference)

\* _apply_weekend_preferences returns the items it was given, each as often as
\* before, unchanged on a weekday, on a weekend with no regular item ahead of
\* a preferred one, and items of the same kind in their old order
KeepsItems(component, meal_type, is_weekend) ==
    LET items == OfferedItems(component, meal_type)
        out == ReorderedItems(component, meal_type, is_weekend)
    IN  /\ Len(out) = Len(items)
        /\ \A i \in 1..Len(items) :
              Cardinality({k \in 1..Len(out) : out[k] = items[i]})
                  = Cardinality({k \in 1..Len(items) : items[k] = items[i]})
        /\ ~is_weekend => out = items
        /\ is_weekend =>
              \A i, j \in 1..Len(out) :
                  i < j => ~(~RulePreferred(out[i], meal_type)
                             /\ RulePreferred(out[j], meal_type))
        /\ \A i, j \in 1..Len(items) :
              i < j /\ (RulePreferred(items[i], meal_type)
                        <=> RulePreferred(items[j], meal_type)) =>
                  \E a, b \in 1..Len(out) :
                      a < b /\ out[a] = items[i] /\ out[b] = items[j]

WeekendKeeps ==
    [component \in DOMAIN MealDatabase, meal_type \in MealTypes, is_weekend \in BOOLEAN |->
        KeepsItems(component, meal_type, is_weekend)]

\* the combinations a pass of the loop can accept on its own
Acceptable ==
    [meal_type \in DOMAIN CombinationRules, is_weekend \in BOOLEAN |->
        {selected_items \in Selections[meal_type, is_weekend] :
            /\ selected_items # <<>>
            /\ _meets_requirements(CombinationRules, selected_items, meal_type)}]

\* C30: for the call in progress, _apply_weekend_preferences returns for every
\* component the items it was given (preferred first on a weekend, relative
\* order kept, identity on a weekday); the combinations
\* _generate_component_meal_options can build and accept are the same for a
\* weekend day as for a weekday, and every option generated so far is one of
\* the combinations the other kind of day accepts.
C30_WeekendKeepsCombinations ==
    mg_pc # "idle" =>
        /\ mg_config.meal_database = MealDatabase
        /\ mg_config.combination_rules = CombinationRules
        /\ \A component \in DOMAIN MealDatabase :
              WeekendKeeps[component, mg_call.meal_type, IsWeekend(mg_call.day)]
        /\ mg_call.meal_type \in DOMAIN CombinationRules =>
              /\ Selections[mg_call.meal_type, TRUE] = Selections[mg_call.meal_type, FALSE]
              /\ Acceptable[mg_call.meal_type, TRUE] = Acceptable[mg_call.meal_type, FALSE]
              /\ mg_loop # NoCall =>
                    \A k \in 1..Len(mg_loop.meal_options) :
                        mg_loop.meal_options[k].items
                            \in Acceptable[mg_call.meal_type, ~IsWeekend(mg_call.day)]

\* a Saturday breakfast call whose carbs were reordered (the Bagel moved to
\* the front) and which accepted a combination with a regular carb
C30_Witness ==
    /\ mg_pc = "loop"
    /\ mg_call.day = Saturday
    /\ mg_call.meal_type = "breakfast"
    /\ ReorderedItems("carbs", "breakfast", TRUE) # OfferedItems("carbs", "breakfast")
    /\ Head(ReorderedItems("carbs", "breakfast", TRUE)) = Bagel
    /\ \E k \in 1..Len(mg_loop.meal_options) :
          \E i \in 1..Len(mg_loop.meal_options[k].items) :
              mg_loop.meal_options[k].items[i] \in {Oats, Toast}

=============================================================================
